---- MODULE Spec2Model ----
(***************************************************************************)
(* Plot panel data pipeline of foxglove-studio (src/unnamed/part_003):     *)
(* the Block Accumulator (getBlockItemsByPath over memoized per-block      *)
(* extraction), the streaming reducer (restore / addMessages), the view    *)
(* window policy (followingView / fixedView / defaultView) and the merge   *)
(* of block and stream data (allPlotData); and the PlayerProblemManager    *)
(* of src/unnamed/part_000.                                                *)
(*                                                                         *)
(* Conventions.  An optional JavaScript value is a set with at most one    *)
(* element: None is undefined, Some(v) is v.  A JavaScript string that is  *)
(* converted to a number is a sequence of one-character strings.  A        *)
(* JavaScript number is a record [nan, tenths]: the value in tenths, so    *)
(* that 0.5 is representable.  An object with string keys is a function    *)
(* whose DOMAIN is its key set.  Arrays are sequences (index 0 of the code *)
(* is index 1 here).                                                       *)
(***************************************************************************)
EXTENDS Integers, Sequences, FiniteSets, TLC

VARIABLES
  xAxisVal,            \* config.xAxisVal
  followingViewWidth,  \* config.followingViewWidth (optional raw string)
  yAxisPaths,          \* config.paths, the values only
  xAxisPath,           \* config.xAxisPath?.value (optional)
  startTime,           \* playerState.activeData?.startTime (optional)
  currentTime,         \* playerState.activeData?.currentTime (optional)
  endTime,             \* playerState.activeData?.endTime (optional)
  blocks,              \* useBlocksByTopic(): sequence of block identities
  decodeId,            \* identity of decodeMessagePathsForMessagesByTopic
  memo,                \* cache of getMessagePathItemsForBlock: key -> result
  extractCalls,        \* key -> number of runs of the memoized function body
  extracted,           \* key -> what the function body returned when it first ran
  plotDataForBlocks,   \* the memoized value of part_003 lines 274-279
  lastRun,             \* latest getBlockItemsByPath call: [blocks, paths, dId, out]
  prevRun,             \* the getBlockItemsByPath call before it
  blockCalls,          \* number of getBlockItemsByPath calls so far
  blockSteps,          \* number of block, path and mode changes so far
  accumulated,         \* contents of the reducer's state object
  accRef,              \* identity of the reducer's state object
  calls,               \* number of restore / addMessages calls so far
  lastOp,              \* the operation that produced this state
  prevAcc,             \* contents of the state object before that operation
  prevRef,             \* identity of the state object before that operation
  inputAfter,          \* contents of the object passed in, after the operation
  msgEvents,           \* the batch handed to the latest addMessages
  problemsById,        \* PlayerProblemManager._problemsById, in insertion order
  problemsCache,       \* PlayerProblemManager._problems (optional array)
  arraysMade,          \* number of arrays problems() has created
  returns,             \* the problems() calls so far: [ref, items, since]
  sinceReturned,       \* the kinds of calls made since the latest problems()
  problemOp,           \* the latest call on the manager: [name, args, result, before]
  problemSteps,        \* number of calls on the manager so far
  namespace,           \* NamespacedLayoutStorage.namespace
  layoutOptions,       \* the constructor's options, and whether the storage migrates
  migrationPc,         \* position of the constructor's async function
  awaited,             \* the promise that function awaits, or awaited last
  migration,           \* NamespacedLayoutStorage.migration
  storageCalls,        \* the invocations of the wrapped storage's methods
  logged,              \* the log.error calls
  layoutCalls,         \* the calls of the wrapper's methods
  rowMounted,          \* what isMounted() of the LayoutRow returns
  dialogs,             \* the confirmation dialogs confirmDelete opened
  deleted,             \* the onDelete calls of the LayoutRow
  extensionProps,      \* ExtensionDetails: installed, extension.foxe, isDesktopApp()
  extensionMounted,    \* what isMounted() of the ExtensionDetails returns
  isInstalled,         \* the state isInstalled of the ExtensionDetails
  toasts,              \* the addToast calls
  registryCalls,       \* the invocations of the extension registry's methods
  analyticsEvents,     \* the analytics.logEvent calls
  runs                 \* the calls of install and uninstall

cfgVars == <<xAxisVal, followingViewWidth, yAxisPaths, xAxisPath>>
clockVars == <<startTime, currentTime, endTime>>
blockVars == <<blocks, decodeId, memo, extractCalls, extracted, plotDataForBlocks,
               lastRun, prevRun, blockCalls, blockSteps>>
reducerVars == <<accumulated, accRef, calls, lastOp, prevAcc, prevRef,
                 inputAfter, msgEvents>>
problemVars == <<problemsById, problemsCache, arraysMade, returns, sinceReturned,
                 problemOp, problemSteps>>
storageVars == <<namespace, layoutOptions, migrationPc, awaited, migration, storageCalls,
                 logged, layoutCalls>>
rowVars == <<rowMounted, dialogs, deleted>>
extensionVars == <<extensionProps, extensionMounted, isInstalled, toasts, registryCalls,
                   analyticsEvents, runs>>
browserVars == <<rowVars, extensionVars>>
vars == <<cfgVars, clockVars, blockVars, reducerVars, problemVars, storageVars, browserVars>>

----------------------------------------------------------------------------
(* Bounds of the model.                                                    *)

MaxPaths == 2      \* longest config.paths list
MaxBatch == 2      \* most events in one addMessages batch
MaxTime == 2       \* largest receive-time, in seconds
MaxCalls == 2      \* most restore / addMessages calls in one run
MaxBlocks == 3     \* longest block sequence handed to the Block Accumulator
MaxLoaded == 1     \* most blocks the player loads during a reducer run
MaxBlockSteps == 4 \* most block, path and mode changes in one accumulator run
MaxIndexEdits == 1 \* most path list edits in one run of the Path Index
MaxCoverBlocks == 2 \* longest block sequence of a coverage run
MaxProblemSteps == 5 \* most calls on a PlayerProblemManager in one run
MaxModeCalls == 3 \* most restore / addMessages calls in one run with mode edits
MaxLayoutCalls == 2 \* most calls of the methods of a NamespacedLayoutStorage in one run
MaxDialogs == 3 \* most confirmation dialogs one LayoutRow opens
MaxRuns == 2 \* most install and uninstall calls on one ExtensionDetails
MaxModeEdits == 2 \* the mode is edited only after fewer mode and path edits than this

----------------------------------------------------------------------------
(* Generic helpers for the JavaScript values used by the code.             *)

None == {}
Some(v) == {v}
The(opt) == CHOOSE v \in opt : TRUE

EmptyObject == [k \in {} |-> <<>>]

\* obj[key] = value on a plain object
Put(obj, key, value) ==
  [k \in DOMAIN obj \cup {key} |-> IF k = key THEN value ELSE obj[k]]

\* { ...a, ...b }: the own keys of a are copied, then those of b are assigned
ObjectSpread(a, b) ==
  LET copied == [k \in DOMAIN a |-> a[k]]
  IN  [k \in DOMAIN copied \cup DOMAIN b |-> IF k \in DOMAIN b THEN b[k] ELSE copied[k]]

Range(s) == {s[i] : i \in 1..Len(s)}

SeqsUpTo(S, n) == UNION {[1..k -> S] : k \in 0..n}

\* rostime toSec(): sec + nsec * 1e-9, here in tenths of a second
toSec(t) == t.sec * 10 + t.nsec \div 100000000

\* rostime subtract() followed by toSec()
subtractTimes(a, b) == [sec |-> a.sec - b.sec, nsec |-> a.nsec - b.nsec]

----------------------------------------------------------------------------
(* Collaborators outside src/: the message path parser and evaluator and   *)
(* the header-stamp helper.  The path strings of the model and what they   *)
(* parse to:                                                               *)
(*   "/a.x", "/a.y"  topic "/a", fields x and y                            *)
(*   "/b.x"          topic "/b", field x                                   *)
(*   "", "a b"       not parseable                                         *)

PathStrings == {"/a.x", "/a.y", "/b.x", "", "a b"}

\* parseRosPath(path): the parsed path, or undefined
parseRosPath(path) ==
  CASE path = "/a.x" -> Some([topicName |-> "/a", field |-> "x"])
    [] path = "/a.y" -> Some([topicName |-> "/a", field |-> "y"])
    [] path = "/b.x" -> Some([topicName |-> "/b", field |-> "x"])
    [] OTHER -> None

\* cachedGetMessagePathDataItems(path, msgEvent): the queried data, or
\* undefined when the path does not parse, the topic differs or the field
\* is absent from the message
cachedGetMessagePathDataItems(path, msgEvent) ==
  LET rosPath == parseRosPath(path)
  IN  IF rosPath = None THEN None
      ELSE IF The(rosPath).topicName # msgEvent.topic THEN None
      ELSE IF The(rosPath).field \notin DOMAIN msgEvent.message.data THEN None
      ELSE Some(<<[path |-> path, value |-> msgEvent.message.data[The(rosPath).field]]>>)

\* getTimestampForMessage(message): message.header.stamp when present
getTimestampForMessage(message) == message.stamp

----------------------------------------------------------------------------
(* The unary plus of JavaScript on a string (ToNumber), for the strings    *)
(* the model uses: surrounding blanks are dropped, the empty string is 0,  *)
(* an optional sign is followed by decimal digits with at most one         *)
(* fractional digit; anything else is NaN.                                 *)

Digits == <<"0", "1", "2", "3", "4", "5", "6", "7", "8", "9">>
IsDigit(c) == \E d \in 1..10 : Digits[d] = c
DigitVal(c) == (CHOOSE d \in 1..10 : Digits[d] = c) - 1

RECURSIVE TrimLeft(_)
TrimLeft(s) == IF s # <<>> /\ Head(s) = " " THEN TrimLeft(Tail(s)) ELSE s

RECURSIVE TrimRight(_)
TrimRight(s) ==
  IF s # <<>> /\ s[Len(s)] = " " THEN TrimRight(SubSeq(s, 1, Len(s) - 1)) ELSE s

RECURSIVE DigitsValue(_)
DigitsValue(s) ==
  IF s = <<>> THEN 0 ELSE DigitsValue(SubSeq(s, 1, Len(s) - 1)) * 10 + DigitVal(s[Len(s)])

NaN == [nan |-> TRUE, tenths |-> 0]
Num(t) == [nan |-> FALSE, tenths |-> t]

\* an unsigned decimal literal: digits, optionally "." and one more digit
UnsignedNumber(s) ==
  LET dots == {i \in 1..Len(s) : s[i] = "."}
  IN  IF s = <<>> THEN NaN
      ELSE IF dots = {} THEN
        IF \A i \in 1..Len(s) : IsDigit(s[i]) THEN Num(DigitsValue(s) * 10) ELSE NaN
      ELSE IF Cardinality(dots) > 1 THEN NaN
      ELSE LET d == CHOOSE i \in dots : TRUE
               whole == SubSeq(s, 1, d - 1)
               frac == SubSeq(s, d + 1, Len(s))
           IN  IF Len(whole) + Len(frac) = 0 \/ Len(frac) > 1 THEN NaN
               ELSE IF \E i \in 1..Len(s) : i # d /\ ~IsDigit(s[i]) THEN NaN
               ELSE Num(DigitsValue(whole) * 10 + DigitsValue(frac))

ToNumber(str) ==
  LET s == TrimRight(TrimLeft(str))
  IN  IF s = <<>> THEN Num(0)
      ELSE IF Head(s) = "-" THEN
        LET u == UnsignedNumber(Tail(s))
        IN  IF u.nan THEN NaN ELSE Num(0 - u.tenths)
      ELSE IF Head(s) = "+" THEN UnsignedNumber(Tail(s))
      ELSE UnsignedNumber(s)

\* JavaScript's x > 0 on a number: false for NaN
GreaterThanZero(n) == ~n.nan /\ n.tenths > 0

----------------------------------------------------------------------------
(* View window policy.                                                     *)

\* only currentCustom shows a single current message
showSingleCurrentMessageOf_CustomOnly(xv) == xv = "currentCustom"

\* part_003 line 201
showSingleCurrentMessageOf(xv) == xv = "currentCustom" \/ xv = "index"
showSingleCurrentMessage == showSingleCurrentMessageOf(xAxisVal)

\* the time since the start in every x-axis mode
timeSincePreloadedStart_AnyMode(time) ==
  IF time # None /\ startTime # None
  THEN Some(toSec(subtractTimes(The(time), The(startTime))))
  ELSE None

\* part_003 lines 210-215: in tenths of a second, or undefined
timeSincePreloadedStart(time) ==
  IF xAxisVal = "timestamp" /\ time # None /\ startTime # None
  THEN Some(toSec(subtractTimes(The(time), The(startTime))))
  ELSE None

currentTimeSinceStart == timeSincePreloadedStart(currentTime)

\* a following view for every width that converts to a number >= 0
followingViewOf_NonNegative(width) ==
  IF width # None /\ ~ToNumber(The(width)).nan /\ ToNumber(The(width)).tenths >= 0
  THEN Some([type |-> "following", width |-> ToNumber(The(width)).tenths])
  ELSE None

\* part_003 lines 219-224
followingViewOf(width) ==
  IF width # None /\ GreaterThanZero(ToNumber(The(width)))
  THEN Some([type |-> "following", width |-> ToNumber(The(width)).tenths])
  ELSE None
followingView == followingViewOf(followingViewWidth)

endTimeSinceStart == timeSincePreloadedStart(endTime)

\* a fixed view from 0 to the end time itself, the start not subtracted
fixedView_ToEndTime ==
  IF xAxisVal = "timestamp" /\ startTime # None /\ endTime # None
  THEN Some([type |-> "fixed", minXValue |-> 0, maxXValue |-> toSec(The(endTime))])
  ELSE None

\* part_003 lines 227-232
fixedView ==
  IF xAxisVal = "timestamp" /\ startTime # None /\ endTimeSinceStart # None
  THEN Some([type |-> "fixed", minXValue |-> 0, maxXValue |-> The(endTimeSinceStart)])
  ELSE None

\* part_003 lines 235-242
defaultView ==
  IF followingView # None THEN followingView
  ELSE IF fixedView # None THEN fixedView
  ELSE None

----------------------------------------------------------------------------
(* Messages, events and blocks the model draws its inputs from.            *)

Time(s) == [sec |-> s, nsec |-> 0]

MsgXY == [data |-> [x |-> 1, y |-> 2], stamp |-> Some(Time(0))]
MsgX == [data |-> [x |-> 3], stamp |-> None]

Event(topic, s, message) == [topic |-> topic, receiveTime |-> Time(s), message |-> message]

\* live events: "/b" is a topic only the x-axis path "/b.x" refers to, and
\* MsgX on "/a" is a message from which "/a.y" extracts nothing
LiveEvents ==
  {Event("/a", s, MsgXY) : s \in 0..MaxTime} \cup {Event("/a", s, MsgX) : s \in 0..MaxTime}
    \cup {Event("/b", s, MsgX) : s \in 0..MaxTime}

\* MessageBlock: messages by topic.  The pool of block identities:
\*   1: "/a" with two messages           2: nothing loaded
\*   3: "/a" and "/b" with one message   4: "/a" loaded, no message
\*   5: "/a" with one message without y
BlockPool ==
  << [a |-> <<Event("/a", 0, MsgXY), Event("/a", 1, MsgXY)>>],
     EmptyObject,
     [a |-> <<Event("/a", 2, MsgXY)>>, b |-> <<Event("/b", 2, MsgX)>>],
     [a |-> <<>>],
     [a |-> <<Event("/a", 1, MsgX)>>] >>
BlockIds == DOMAIN BlockPool

\* the key of a topic in a MessageBlock record
TopicKey(topicName) ==
  CASE topicName = "/a" -> "a" [] topicName = "/b" -> "b" [] OTHER -> "c"

----------------------------------------------------------------------------
(* Path Index.                                                             *)

\* lodash compact([xAxisPath?.value]): undefined and "" are dropped
compactX(xp) == IF xp = None \/ The(xp) = "" THEN <<>> ELSE <<The(xp)>>

\* part_003 lines 244-246
allPathsOf(yp, xp) == yp \o compactX(xp)
allPaths == allPathsOf(yAxisPaths, xAxisPath)

RECURSIVE topicToPathsOf_Prepending(_)
\* a later path of a topic is put before the earlier ones
topicToPathsOf_Prepending(paths) ==
  IF paths = <<>> THEN EmptyObject
  ELSE LET out == topicToPathsOf_Prepending(SubSeq(paths, 1, Len(paths) - 1))
           path == paths[Len(paths)]
           rosPath == parseRosPath(path)
       IN  IF rosPath = None THEN out
           ELSE LET topic == The(rosPath).topicName
                    existing == IF topic \in DOMAIN out THEN out[topic] ELSE <<>>
                IN  Put(out, topic, <<path>> \o existing)

RECURSIVE topicToPathsOf(_)
\* part_003 lines 255-267: topic -> the paths of that topic, in list order
topicToPathsOf(paths) ==
  IF paths = <<>> THEN EmptyObject
  ELSE LET out == topicToPathsOf(SubSeq(paths, 1, Len(paths) - 1))
           path == paths[Len(paths)]
           rosPath == parseRosPath(path)
       IN  IF rosPath = None THEN out
           ELSE LET topic == The(rosPath).topicName
                    existing == IF topic \in DOMAIN out THEN out[topic] ELSE <<>>
                IN  Put(out, topic, Append(existing, path))
topicToPaths == topicToPathsOf(allPaths)

----------------------------------------------------------------------------
(* Block Accumulator.                                                      *)

RECURSIVE filterMapItems(_, _)
\* the messages of one topic that yield data for path, as {messageEvent, queriedData}
filterMapItems(path, messages) ==
  IF messages = <<>> THEN <<>>
  ELSE LET q == cachedGetMessagePathDataItems(path, Head(messages))
           rest == filterMapItems(path, Tail(messages))
       IN  IF q = None THEN rest
           ELSE <<[messageEvent |-> Head(messages), queriedData |-> The(q)]>> \o rest

RECURSIVE decodeMessagePathsForMessagesByTopic(_, _)
\* useDecodeMessagePathsForMessagesByTopic(allPaths) applied to a block: an
\* entry for every unparseable path (empty) and for every path whose topic
\* the block holds
decodeMessagePathsForMessagesByTopic(paths, block) ==
  IF paths = <<>> THEN EmptyObject
  ELSE LET obj == decodeMessagePathsForMessagesByTopic(SubSeq(paths, 1, Len(paths) - 1), block)
           path == paths[Len(paths)]
           rosPath == parseRosPath(path)
       IN  IF rosPath = None THEN Put(obj, path, <<>>)
           ELSE IF TopicKey(The(rosPath).topicName) \notin DOMAIN block THEN obj
           ELSE Put(obj, path, filterMapItems(path, block[TopicKey(The(rosPath).topicName)]))

\* part_003 lines 102-109: one message-and-data item as a PlotDataItem
toPlotDataItem(messageAndData) ==
  [queriedData |-> messageAndData.queriedData,
   receiveTime |-> messageAndData.messageEvent.receiveTime,
   headerStamp |-> getTimestampForMessage(messageAndData.messageEvent.message)]

\* part_003 lines 98-113: every path gets exactly one range
getPlotDataByPath(itemsByPath) ==
  [path \in DOMAIN itemsByPath |->
     << [i \in 1..Len(itemsByPath[path]) |-> toPlotDataItem(itemsByPath[path][i])] >>]

\* the body of the function memoized at part_003 lines 115-122
extractBlock(paths, blockId) ==
  getPlotDataByPath(decodeMessagePathsForMessagesByTopic(paths, BlockPool[blockId]))

\* no memoization: the body runs at every call
getMessagePathItemsForBlock_Uncached(cache, paths, dId, blockId) ==
  LET key == <<dId, blockId>>
  IN  [memo |-> Put(cache.memo, key, extractBlock(paths, blockId)),
       runs |-> Put(cache.runs, key,
                    (IF key \in DOMAIN cache.runs THEN cache.runs[key] ELSE 0) + 1)]

\* part_003 lines 115-122, memoizeWeak: a cache state is [memo, runs]; the
\* body runs only when the key (decode function, block) is not cached
getMessagePathItemsForBlock(cache, paths, dId, blockId) ==
  LET key == <<dId, blockId>>
  IN  IF key \in DOMAIN cache.memo THEN cache
      ELSE [memo |-> Put(cache.memo, key, extractBlock(paths, blockId)),
            runs |-> Put(cache.runs, key,
                         (IF key \in DOMAIN cache.runs THEN cache.runs[key] ELSE 0) + 1)]

\* no copy: the new range is the cached array itself
startRange_Shared(key, path, pathItems) ==
  [items |-> pathItems, alias |-> Some(<<key, path>>)]

\* the new range starts empty
startRange_Empty(key, path, pathItems) == [items |-> <<>>, alias |-> None]

\* part_003 line 153, pathItems.slice(): a range of ret is [items, alias];
\* alias names the cached array (key, path) the range is the same object
\* as, and a copy is the same object as none
startRange(key, path, pathItems) == [items |-> pathItems, alias |-> None]

\* every later block of a path continues its latest range, gap or not
continuesFromPreviousBlock_IgnoringGaps(lastBlockIndexForPath, path, i) ==
  path \in DOMAIN lastBlockIndexForPath

\* no block continues a range: every block starts one
continuesFromPreviousBlock_Never(lastBlockIndexForPath, path, i) == FALSE

\* the new range is put before the ranges the path already has
pushRange_AtFront(existingItems, range) == <<range>> \o existingItems

\* part_003 line 153, existingItems.push(...): the new range goes last
pushRange(existingItems, range) == Append(existingItems, range)

\* part_003 line 141: lastBlockIndexForPath[path] === i - 1
continuesFromPreviousBlock(lastBlockIndexForPath, path, i) ==
  path \in DOMAIN lastBlockIndexForPath /\ lastBlockIndexForPath[path] = i - 1

\* part_003 lines 137-158: the entries of the block cached under key, at
\* index i (from 0), folded into st = [ret, last, cache]; a push onto a
\* range also changes the cached array the range is an alias of
addBlockEntries(st, key, i) ==
  LET messagePathItemsForBlock == st.cache.memo[key]
      touched == DOMAIN messagePathItemsForBlock
      existingItems(path) == IF path \in DOMAIN st.ret THEN st.ret[path] ELSE <<>>
      pathItems(path) ==
        IF messagePathItemsForBlock[path] = <<>> THEN None
        ELSE Some(messagePathItemsForBlock[path][1])
      continues(path) == continuesFromPreviousBlock(st.last, path, i)
      pushes(path) ==
        continues(path) /\ existingItems(path) # <<>> /\ pathItems(path) # None
      currentRange(path) == existingItems(path)[Len(existingItems(path))]
      newRanges(path) ==
        IF continues(path)
        THEN IF pushes(path)
             THEN [existingItems(path) EXCEPT ![Len(existingItems(path))].items =
                                                @ \o The(pathItems(path))]
             ELSE existingItems(path)
        ELSE IF pathItems(path) # None
             THEN pushRange(existingItems(path),
                            startRange(key, path, The(pathItems(path))))
             ELSE existingItems(path)
      pushedOnto(k, p) ==
        p \in touched /\ pushes(p) /\ currentRange(p).alias = Some(<<k, p>>)
  IN  [ret |-> [path \in DOMAIN st.ret \cup touched |->
                  IF path \in touched THEN newRanges(path) ELSE st.ret[path]],
       last |-> [path \in DOMAIN st.last \cup touched |->
                  IF path \in touched THEN i ELSE st.last[path]],
       cache |-> [st.cache EXCEPT !.memo =
                  [k \in DOMAIN st.cache.memo |->
                    [p \in DOMAIN st.cache.memo[k] |->
                      IF pushedOnto(k, p)
                      THEN <<st.cache.memo[k][p][1] \o The(pathItems(p))>>
                      ELSE st.cache.memo[k][p]]]]]

RECURSIVE getBlockItemsByPathLoop(_, _, _, _)
\* part_003 lines 130-159: [ret, last, cache] after the blocks of blockSeq
getBlockItemsByPathLoop(cache, paths, dId, blockSeq) ==
  IF blockSeq = <<>> THEN [ret |-> EmptyObject, last |-> EmptyObject, cache |-> cache]
  ELSE LET n == Len(blockSeq)
           before == getBlockItemsByPathLoop(cache, paths, dId, SubSeq(blockSeq, 1, n - 1))
           cache2 == getMessagePathItemsForBlock(before.cache, paths, dId, blockSeq[n])
       IN  addBlockEntries([before EXCEPT !.cache = cache2], <<dId, blockSeq[n]>>, n - 1)

\* part_003 lines 126-161: [ret, cache], ret being path -> ranges
getBlockItemsByPath(cache, paths, dId, blockSeq) ==
  LET r == getBlockItemsByPathLoop(cache, paths, dId, blockSeq)
  IN  [ret |-> [path \in DOMAIN r.ret |->
                  [j \in 1..Len(r.ret[path]) |-> r.ret[path][j].items]],
       cache |-> r.cache]

\* only the paths for which the blocks hold a sample
blockPathsMemo_WithSamples ==
  {path \in DOMAIN plotDataForBlocks :
     \E k \in 1..Len(plotDataForBlocks[path]) : plotDataForBlocks[path][k] # <<>>}

\* part_003 lines 309-310
blockPathsMemo == DOMAIN plotDataForBlocks

----------------------------------------------------------------------------
(* Streaming reducer.                                                      *)

RECURSIVE restoreLoop(_, _)
\* part_003 lines 289-297: the loop over allPaths
restoreLoop(paths, previous) ==
  IF paths = <<>> THEN EmptyObject
  ELSE LET updated == restoreLoop(SubSeq(paths, 1, Len(paths) - 1), previous)
           path == paths[Len(paths)]
       IN  IF path \in DOMAIN previous THEN Put(updated, path, previous[path]) ELSE updated

\* every entry of previous is kept, whatever the path list
restore_KeepAll(paths, previous) ==
  IF previous = None THEN EmptyObject ELSE The(previous)

\* part_003 lines 283-300, for the allPaths the callback closes over;
\* previous is optional
restore(paths, previous) ==
  IF previous = None THEN EmptyObject ELSE restoreLoop(paths, The(previous))

\* nothing is dropped
truncateOlder_KeepAll(plotDataItems, minStamp) == plotDataItems

\* the items newer than minStamp: an item at minStamp is dropped
truncateOlder_AtBoundary(plotDataItems, minStamp) ==
  LET keep(item) == toSec(item.receiveTime) > minStamp
  IN  SelectSeq(plotDataItems, keep)

\* part_003 lines 361-366: the items not older than minStamp
truncateOlder(plotDataItems, minStamp) ==
  LET keep(item) == ~(toSec(item.receiveTime) < minStamp)
  IN  SelectSeq(plotDataItems, keep)

\* addMessages without knowledge of the block-covered paths
addMessagesDeps_NoBlockPaths ==
  [blockPathsMemo |-> {},
   followingView |-> followingView,
   showSingleCurrentMessage |-> showSingleCurrentMessage,
   topicToPaths |-> topicToPaths]

\* part_003 lines 378-384: what the addMessages callback closes over
addMessagesDeps ==
  [blockPathsMemo |-> blockPathsMemo,
   followingView |-> followingView,
   showSingleCurrentMessage |-> showSingleCurrentMessage,
   topicToPaths |-> topicToPaths]

\* outside single-message mode a sample for a path that has an entry goes
\* into a new range after the ranges the path has
addMessageForPath_NewRange(deps, st, path, msgEvent, lastEventTime) ==
  IF path \in deps.blockPathsMemo THEN st
  ELSE LET dataItem == cachedGetMessagePathDataItems(path, msgEvent)
       IN  IF dataItem = None THEN st
           ELSE LET plotDataItem ==
                      [queriedData |-> The(dataItem),
                       receiveTime |-> msgEvent.receiveTime,
                       headerStamp |-> getTimestampForMessage(msgEvent.message)]
                IN  IF deps.showSingleCurrentMessage \/ path \notin DOMAIN st.acc
                    THEN [acc |-> Put(st.acc, path, << <<plotDataItem>> >>), changed |-> TRUE]
                    ELSE [acc |-> Put(st.acc, path, Append(st.acc[path], <<plotDataItem>>)),
                          changed |-> TRUE]

\* part_003 lines 327-368: one path of one event; st = [acc, changed]
addMessageForPath(deps, st, path, msgEvent, lastEventTime) ==
  IF path \in deps.blockPathsMemo THEN st
  ELSE LET dataItem == cachedGetMessagePathDataItems(path, msgEvent)
       IN  IF dataItem = None THEN st
           ELSE LET plotDataItem ==
                      [queriedData |-> The(dataItem),
                       receiveTime |-> msgEvent.receiveTime,
                       headerStamp |-> getTimestampForMessage(msgEvent.message)]
                IN  IF deps.showSingleCurrentMessage
                    THEN [acc |-> Put(st.acc, path, << <<plotDataItem>> >>), changed |-> TRUE]
                    ELSE LET plotDataPath ==
                               IF path \in DOMAIN st.acc THEN st.acc[path] ELSE << <<>> >>
                             plotDataItems == Append(plotDataPath[1], plotDataItem)
                             range0 ==
                               IF lastEventTime # None /\ deps.followingView # None
                               THEN truncateOlder(plotDataItems,
                                      toSec(The(lastEventTime)) - The(deps.followingView).width)
                               ELSE plotDataItems
                         IN  [acc |-> Put(st.acc, path, [plotDataPath EXCEPT ![1] = range0]),
                              changed |-> TRUE]

RECURSIVE addMessageForPaths_StopAtFailure(_, _, _, _, _)
\* the loop over the paths ends at the first path extraction fails for
addMessageForPaths_StopAtFailure(deps, st, paths, msgEvent, lastEventTime) ==
  IF paths = <<>> THEN st
  ELSE IF cachedGetMessagePathDataItems(Head(paths), msgEvent) = None THEN st
  ELSE addMessageForPaths_StopAtFailure(
         deps, addMessageForPath(deps, st, Head(paths), msgEvent, lastEventTime),
         Tail(paths), msgEvent, lastEventTime)

RECURSIVE addMessageForPaths(_, _, _, _, _)
\* part_003 line 327: the loop over the paths of the event's topic
addMessageForPaths(deps, st, paths, msgEvent, lastEventTime) ==
  IF paths = <<>> THEN st
  ELSE addMessageForPaths(deps, addMessageForPath(deps, st, Head(paths), msgEvent, lastEventTime),
                          Tail(paths), msgEvent, lastEventTime)

RECURSIVE addMessagesLoop_Reversed(_, _, _, _)
\* the events of the batch are processed from the last to the first
addMessagesLoop_Reversed(deps, st, events, lastEventTime) ==
  IF events = <<>> THEN st
  ELSE LET msgEvent == Head(events)
           rest == addMessagesLoop_Reversed(deps, st, Tail(events), lastEventTime)
       IN  IF msgEvent.topic \notin DOMAIN deps.topicToPaths THEN rest
           ELSE addMessageForPaths(deps, rest, deps.topicToPaths[msgEvent.topic],
                                   msgEvent, lastEventTime)

RECURSIVE addMessagesLoop(_, _, _, _)
\* part_003 lines 321-370: the loop over the events of the batch
addMessagesLoop(deps, st, events, lastEventTime) ==
  IF events = <<>> THEN st
  ELSE LET msgEvent == Head(events)
           next == IF msgEvent.topic \notin DOMAIN deps.topicToPaths THEN st
                   ELSE addMessageForPaths(deps, st, deps.topicToPaths[msgEvent.topic],
                                           msgEvent, lastEventTime)
       IN  addMessagesLoop(deps, next, Tail(events), lastEventTime)

\* the object passed in is returned after every batch
addMessages_SameObject(deps, acc, events) ==
  LET lastEventTime == IF events = <<>> THEN None ELSE Some(events[Len(events)].receiveTime)
      st == addMessagesLoop(deps, [acc |-> acc, changed |-> FALSE], events, lastEventTime)
  IN  [acc |-> st.acc, changed |-> FALSE]

\* a new object is returned after every batch
addMessages_AlwaysNew(deps, acc, events) ==
  LET lastEventTime == IF events = <<>> THEN None ELSE Some(events[Len(events)].receiveTime)
      st == addMessagesLoop(deps, [acc |-> acc, changed |-> FALSE], events, lastEventTime)
  IN  [acc |-> st.acc, changed |-> TRUE]

\* in following mode the ranges of all paths are trimmed after the batch
addMessages_TrimmingAllPaths(deps, acc, events) ==
  LET lastEventTime == IF events = <<>> THEN None ELSE Some(events[Len(events)].receiveTime)
      st == addMessagesLoop(deps, [acc |-> acc, changed |-> FALSE], events, lastEventTime)
      trims == lastEventTime # None /\ deps.followingView # None
                 /\ ~deps.showSingleCurrentMessage
      trimmed(ranges) ==
        [ranges EXCEPT ![1] =
           truncateOlder(@, toSec(The(lastEventTime)) - The(deps.followingView).width)]
  IN  [acc |-> [path \in DOMAIN st.acc |->
                  IF trims THEN trimmed(st.acc[path]) ELSE st.acc[path]],
       changed |-> st.changed]

\* part_003 lines 312-377: [acc, changed]; acc is the contents of the object
\* passed in after the call (it is changed in place) and of the result,
\* which is a new object exactly when changed
addMessages(deps, acc, events) ==
  LET lastEventTime == IF events = <<>> THEN None ELSE Some(events[Len(events)].receiveTime)
  IN  addMessagesLoop(deps, [acc |-> acc, changed |-> FALSE], events, lastEventTime)

\* the spread in the other order: the stream view's entries win
allPlotData_StreamWins == ObjectSpread(plotDataForBlocks, accumulated)

\* part_003 line 397
allPlotData == ObjectSpread(accumulated, plotDataForBlocks)

----------------------------------------------------------------------------
(* PlayerProblemManager (src/unnamed/part_000).  The Map _problemsById is  *)
(* a sequence of [id, problem] in insertion order; an array is [ref,       *)
(* items], ref being its identity; a manager state is                      *)
(* m = [byId, cache, made]: the map, the optional cached array and the     *)
(* number of arrays created so far.                                        *)

ProblemIds == {"a", "b"}
Problems ==
  {[severity |-> "error", message |-> "m1"], [severity |-> "warn", message |-> "m2"]}

\* the predicates handed to removeProblems: an entry satisfies one when its
\* id or its severity is listed
Predicates ==
  {[ids |-> {}, severities |-> {}], [ids |-> {"a"}, severities |-> {}],
   [ids |-> {}, severities |-> {"warn"}], [ids |-> ProblemIds, severities |-> {}]}
Satisfies(predicate, id, problem) ==
  id \in predicate.ids \/ problem.severity \in predicate.severities

\* Map.has, Map.set (an id already present keeps its place), Map.delete
MapHas(map, id) == \E i \in 1..Len(map) : map[i].id = id
MapSet(map, id, problem) ==
  IF MapHas(map, id)
  THEN [i \in 1..Len(map) |-> IF map[i].id = id THEN [id |-> id, problem |-> problem] ELSE map[i]]
  ELSE Append(map, [id |-> id, problem |-> problem])
MapDelete(map, id) ==
  LET other(entry) == entry.id # id
  IN  SelectSeq(map, other)
\* Array.from(map.values())
MapValues(map) == [i \in 1..Len(map) |-> map[i].problem]

\* part_000 lines 20-22: [m, ret]
problems(m) ==
  IF m.cache # None THEN [m |-> m, ret |-> The(m.cache)]
  ELSE LET array == [ref |-> m.made + 1, items |-> MapValues(m.byId)]
       IN  [m |-> [m EXCEPT !.cache = Some(array), !.made = m.made + 1], ret |-> array]

\* the cached array survives the call
addProblem_KeepsCache(m, id, problem) == [m EXCEPT !.byId = MapSet(m.byId, id, problem)]

\* part_000 lines 24-28 (the console call writes a log line only)
addProblem(m, id, problem) ==
  [m EXCEPT !.byId = MapSet(m.byId, id, problem), !.cache = None]

\* part_000 lines 30-32
hasProblem(m, id) == MapHas(m.byId, id)

\* the cached array is dropped whether or not the id was present
removeProblem_AlwaysInvalidates(m, id) ==
  LET changed == MapHas(m.byId, id)
  IN  [m |-> [m EXCEPT !.byId = MapDelete(m.byId, id), !.cache = None], ret |-> changed]

\* part_000 lines 34-40: [m, ret]
removeProblem(m, id) ==
  LET changed == MapHas(m.byId, id)
  IN  [m |-> IF changed THEN [m EXCEPT !.byId = MapDelete(m.byId, id), !.cache = None] ELSE m,
       ret |-> changed]

\* part_000 lines 42-55: [m, ret]
removeProblems(m, predicate) ==
  LET stays(entry) == ~Satisfies(predicate, entry.id, entry.problem)
      kept == SelectSeq(m.byId, stays)
      changed == kept # m.byId
  IN  [m |-> IF changed THEN [m EXCEPT !.byId = kept, !.cache = None] ELSE m,
       ret |-> changed]

\* part_000 lines 57-60
clear(m) == [m EXCEPT !.byId = <<>>, !.cache = None]

\* part_000 lines 13-14: a new manager
InitProblems ==
  /\ problemsById = <<>>
  /\ problemsCache = None
  /\ arraysMade = 0
  /\ returns = <<>>
  /\ sinceReturned = {}
  /\ problemOp = [name |-> "new", args |-> <<>>, result |-> FALSE, before |-> <<>>]
  /\ problemSteps = 0

----------------------------------------------------------------------------
(* NamespacedLayoutStorage (NamespacedLayoutStorage.ts).  A promise is     *)
(* [state, value]: pending, fulfilled with a value or rejected with an     *)
(* error.  The wrapped ILayoutStorage is outside src/: its methods return  *)
(* promises, which settle later, either way; the log of its invocations    *)
(* keeps, for each, the method, the arguments, the state of the migration  *)
(* promise at the invocation and the promise the invocation returned.      *)

Pending == [state |-> "pending", value |-> "undefined"]
Fulfilled(value) == [state |-> "fulfilled", value |-> value]
Rejected(error) == [state |-> "rejected", value |-> error]

\* the methods of the wrapper
LayoutMethods == {"list", "get", "put", "delete"}

\* the arguments the wrapper's methods are called with: a layout id for get
\* and delete, a layout for put
LayoutArgs(method) ==
  CASE method = "list" -> <<>>
    [] method = "get" -> <<"id1">>
    [] method = "put" -> <<"layout1">>
    [] method = "delete" -> <<"id1">>

\* what a promise returned by a method of the wrapped storage settles to
StorageOutcomes(method) ==
  CASE method = "migrateUnnamespacedLayouts" -> {Fulfilled("undefined"), Rejected("migrateError")}
    [] method = "importLayouts" -> {Fulfilled("undefined"), Rejected("importError")}
    [] method = "list" -> {Fulfilled("layouts"), Rejected("storageError")}
    [] method = "get" -> {Fulfilled("layout"), Rejected("storageError")}
    [] method = "put" -> {Fulfilled("savedLayout"), Rejected("storageError")}
    [] method = "delete" -> {Fulfilled("undefined"), Rejected("storageError")}

\* the rejection passes through the handler: it is logged and thrown again
catchLogged_Rethrow(promise, message) ==
  IF promise.state = "rejected"
  THEN [promise |-> promise, logged |-> <<[message |-> message, error |-> promise.value]>>]
  ELSE [promise |-> promise, logged |-> <<>>]

\* NamespacedLayoutStorage.ts lines 27 and 36,
\* promise.catch((error) => log.error(message, error)), for a settled
\* promise: the promise the chain gives and the lines it logs
catchLogged(promise, message) ==
  IF promise.state = "rejected"
  THEN [promise |-> Fulfilled("undefined"),
        logged |-> <<[message |-> message, error |-> promise.value]>>]
  ELSE [promise |-> promise, logged |-> <<>>]

\* a method of the wrapped storage is invoked: ctor is the state of the
\* constructor's function, [pc, awaited, migration, storageCalls, logged]
invoke(ctor, method, args) ==
  [ctor EXCEPT !.storageCalls =
     Append(@, [method |-> method, args |-> args, migration |-> ctor.migration.state,
                outcome |-> Pending])]

\* NamespacedLayoutStorage.ts lines 30-38, up to the await of line 31 or
\* the end of the function
importStep(ns, options, ctor) ==
  IF options.importFromNamespace # None
  THEN [invoke(ctor, "importLayouts",
               <<[fromNamespace |-> The(options.importFromNamespace), toNamespace |-> ns]>>)
          EXCEPT !.pc = "awaitImport"]
  ELSE [ctor EXCEPT !.pc = "done", !.migration = Fulfilled("undefined")]

\* the promise of migrateUnnamespacedLayouts is not awaited: the function
\* goes on to the import at once
migrateStep_NotAwaited(ns, options, ctor) ==
  IF options.migrateUnnamespacedLayouts /\ options.storageMigrates
  THEN importStep(ns, options, invoke(ctor, "migrateUnnamespacedLayouts", <<ns>>))
  ELSE importStep(ns, options, ctor)

\* NamespacedLayoutStorage.ts lines 24-28, up to the await of line 25; a
\* storage without the optional method gives undefined to await
migrateStep(ns, options, ctor) ==
  IF options.migrateUnnamespacedLayouts
  THEN IF options.storageMigrates
       THEN [invoke(ctor, "migrateUnnamespacedLayouts", <<ns>>) EXCEPT !.pc = "awaitMigrate"]
       ELSE [ctor EXCEPT !.pc = "afterMigrate", !.awaited = Fulfilled("undefined")]
  ELSE importStep(ns, options, ctor)

\* NamespacedLayoutStorage.ts lines 15-39: the constructor runs its async
\* function up to the first await
newNamespacedLayoutStorage(ns, options) ==
  migrateStep(ns, options,
              [pc |-> "start", awaited |-> Pending, migration |-> Pending,
               storageCalls |-> <<>>, logged |-> <<>>])

\* the function goes on after an await: a rejected awaited promise throws,
\* which rejects the migration promise
resumeMigration(ns, options, ctor) ==
  IF ctor.awaited.state = "rejected"
  THEN [ctor EXCEPT !.pc = "done", !.migration = Rejected(ctor.awaited.value)]
  ELSE IF ctor.pc = "afterMigrate" THEN importStep(ns, options, ctor)
  ELSE [ctor EXCEPT !.pc = "done", !.migration = Fulfilled("undefined")]

\* the method goes on at once
awaitMigration_NoWait(promise) == TRUE

\* NamespacedLayoutStorage.ts lines 42, 46, 50, 54, await this.migration:
\* the method goes on when the promise has settled
awaitMigration(promise) == promise.state # "pending"

\* the storage is given the namespace the layouts are imported from
storageArgs_ImportNamespace(ns, options, args) ==
  <<IF options.importFromNamespace # None THEN The(options.importFromNamespace) ELSE ns>> \o args

\* NamespacedLayoutStorage.ts lines 43, 47, 51, 55: the arguments handed to
\* the wrapped storage
storageArgs(ns, options, args) == <<ns>> \o args

\* NamespacedLayoutStorage.ts lines 43, 47, 51, 55: what the method's
\* promise settles to, given the settled promise of the storage call;
\* delete returns nothing
methodResult(method, promise) ==
  IF promise.state = "fulfilled" /\ method = "delete" THEN Fulfilled("undefined")
  ELSE promise

\* the options the constructor is given, with whether the wrapped storage
\* has the optional method migrateUnnamespacedLayouts
LayoutOptions ==
  [migrateUnnamespacedLayouts : BOOLEAN,
   importFromNamespace : {None, Some("local")},
   storageMigrates : BOOLEAN]

\* nothing to migrate and nothing to import
NoLayoutOptions ==
  {[migrateUnnamespacedLayouts |-> FALSE, importFromNamespace |-> None,
    storageMigrates |-> TRUE]}

\* a NamespacedLayoutStorage of the namespace "user" after its constructor
InitLayoutStorage(options) ==
  /\ namespace = "user"
  /\ layoutOptions \in options
  /\ LET ctor == newNamespacedLayoutStorage(namespace, layoutOptions)
     IN  /\ migrationPc = ctor.pc
         /\ awaited = ctor.awaited
         /\ migration = ctor.migration
         /\ storageCalls = ctor.storageCalls
         /\ logged = ctor.logged
  /\ layoutCalls = <<>>

----------------------------------------------------------------------------
(* LayoutRow and ExtensionDetails (LayoutRow.tsx).  The dialog of          *)
(* useConfirm and the extension registry are outside src/: the dialog's    *)
(* promise resolves with "ok" or "cancel", or stays pending; the           *)
(* registry's promises settle either way.                                  *)

\* the responses a confirmation dialog resolves with
ConfirmResponses == {"ok", "cancel"}

\* the layout prop of the row
RowLayout == [id |-> "id1", name |-> "layout1"]

\* onDelete is called without looking at whether the row is mounted
confirmDeleteThen_Unmounted(response, mounted, layout) ==
  IF response = "ok" THEN <<layout>> ELSE <<>>

\* LayoutRow.tsx lines 234-238, the callback chained to the dialog's
\* promise: the onDelete calls it makes, given what isMounted() returns
confirmDeleteThen(response, mounted, layout) ==
  IF response = "ok" /\ mounted THEN <<layout>> ELSE <<>>

\* LayoutRow.tsx lines 136-137: a mounted row with no dialog
InitLayoutRow ==
  /\ rowMounted = TRUE
  /\ dialogs = <<>>
  /\ deleted = <<>>

\* the props and environment of an ExtensionDetails: the installed prop,
\* extension.foxe (optional) and what isDesktopApp() returns
ExtensionProps ==
  [installed : BOOLEAN, foxe : {None, Some("url1")}, desktop : BOOLEAN]

\* an extension that can be installed, in the desktop app
NoExtensionProps == {[installed |-> FALSE, foxe |-> Some("url1"), desktop |-> TRUE]}

\* what a promise returned by a method of the extension registry settles to
RegistryOutcomes(method) ==
  CASE method = "downloadExtension" -> {Fulfilled("data1"), Rejected("downloadError")}
    [] method = "installExtension" -> {Fulfilled("undefined"), Rejected("installError")}
    [] method = "uninstallExtension" -> {Fulfilled("undefined"), Rejected("uninstallError")}

\* an addToast call with the appearance "error"
ErrorToast(text) == [text |-> text, appearance |-> "error"]

\* a call of install or uninstall before it runs: pc is its position,
\* awaits the registry invocation it waits for, download and installation
\* the invocations it made, toast the toast it raised, end how it ended,
\* mounted what isMounted() returned to it, rendered whether the button
\* that calls it was rendered
NewRun(kind, rendered) ==
  [kind |-> kind, pc |-> "start", awaits |-> 0, download |-> 0, installation |-> 0,
   toast |-> 0, end |-> "running", mounted |-> TRUE, rendered |-> rendered]

\* a method of the registry is invoked: ext is the state of the component,
\* [isInstalled, toasts, registryCalls, analyticsEvents]
registryInvoke(ext, method, args) ==
  [ext EXCEPT !.registryCalls = Append(@, [method |-> method, args |-> args,
                                           outcome |-> Pending])]

\* the error is swallowed without a toast
installCatch_Silent(ext, run, error) ==
  [ext |-> ext, run |-> [run EXCEPT !.pc = "done", !.end = "failed"]]

\* LayoutRow.tsx lines 589-593, the catch block of install: [ext, run]
installCatch(ext, run, error) ==
  [ext |-> [ext EXCEPT !.toasts =
              Append(@, ErrorToast(<<"Failed to download extension", error>>))],
   run |-> [run EXCEPT !.pc = "done", !.end = "failed", !.toast = Len(ext.toasts) + 1]]

\* the download is attempted outside the desktop app too
install_AnyApp(props, ext, run) ==
  IF props.foxe = None THEN installCatch(ext, run, "foxe URL is missing")
  ELSE [ext |-> registryInvoke(ext, "downloadExtension", <<The(props.foxe)>>),
        run |-> [run EXCEPT !.pc = "awaitDownload", !.awaits = Len(ext.registryCalls) + 1,
                            !.download = Len(ext.registryCalls) + 1]]

\* LayoutRow.tsx lines 572-583, install up to its first await: [ext, run]
install(props, ext, run) ==
  IF ~props.desktop
  THEN [ext |-> [ext EXCEPT !.toasts =
                   Append(@, ErrorToast(<<"Download the desktop app to use marketplace extensions.">>))],
        run |-> [run EXCEPT !.pc = "done", !.end = "notDesktop",
                            !.toast = Len(ext.toasts) + 1]]
  ELSE IF props.foxe = None THEN installCatch(ext, run, "foxe URL is missing")
  ELSE [ext |-> registryInvoke(ext, "downloadExtension", <<The(props.foxe)>>),
        run |-> [run EXCEPT !.pc = "awaitDownload", !.awaits = Len(ext.registryCalls) + 1,
                            !.download = Len(ext.registryCalls) + 1]]

\* the flag is set whether or not the component is mounted
installResume_Unmounted(mounted, ext, run) ==
  LET promise == ext.registryCalls[run.awaits].outcome
  IN  IF promise.state = "rejected" THEN installCatch(ext, run, promise.value)
      ELSE IF run.pc = "awaitDownload"
      THEN [ext |-> registryInvoke(ext, "installExtension", <<"local", promise.value>>),
            run |-> [run EXCEPT !.pc = "awaitInstall", !.awaits = Len(ext.registryCalls) + 1,
                                !.installation = Len(ext.registryCalls) + 1]]
      ELSE [ext |-> [ext EXCEPT !.isInstalled = TRUE,
                                !.analyticsEvents = Append(@, "EXTENSION_INSTALL")],
            run |-> [run EXCEPT !.pc = "done", !.end = "installed", !.mounted = mounted]]

\* LayoutRow.tsx lines 583-593, install after the await of line 583 or of
\* line 584, the awaited promise having settled: [ext, run]
installResume(mounted, ext, run) ==
  LET promise == ext.registryCalls[run.awaits].outcome
  IN  IF promise.state = "rejected" THEN installCatch(ext, run, promise.value)
      ELSE IF run.pc = "awaitDownload"
      THEN [ext |-> registryInvoke(ext, "installExtension", <<"local", promise.value>>),
            run |-> [run EXCEPT !.pc = "awaitInstall", !.awaits = Len(ext.registryCalls) + 1,
                                !.installation = Len(ext.registryCalls) + 1]]
      ELSE IF mounted
      THEN [ext |-> [ext EXCEPT !.isInstalled = TRUE,
                                !.analyticsEvents = Append(@, "EXTENSION_INSTALL")],
            run |-> [run EXCEPT !.pc = "done", !.end = "installed", !.mounted = TRUE]]
      ELSE [ext |-> ext, run |-> [run EXCEPT !.pc = "done", !.end = "unmounted",
                                             !.mounted = FALSE]]

\* LayoutRow.tsx lines 596-597, uninstall up to its await: [ext, run]
uninstall(ext, run) ==
  [ext |-> registryInvoke(ext, "uninstallExtension", <<"extension1">>),
   run |-> [run EXCEPT !.pc = "awaitUninstall", !.awaits = Len(ext.registryCalls) + 1]]

\* LayoutRow.tsx lines 597-601, uninstall after its await: a rejection is
\* thrown out of the callback
uninstallResume(mounted, ext, run) ==
  LET promise == ext.registryCalls[run.awaits].outcome
  IN  IF promise.state = "rejected"
      THEN [ext |-> ext, run |-> [run EXCEPT !.pc = "done", !.end = "threw"]]
      ELSE IF mounted
      THEN [ext |-> [ext EXCEPT !.isInstalled = FALSE,
                                !.analyticsEvents = Append(@, "EXTENSION_UNINSTALL")],
            run |-> [run EXCEPT !.pc = "done", !.end = "uninstalled", !.mounted = TRUE]]
      ELSE [ext |-> ext, run |-> [run EXCEPT !.pc = "done", !.end = "unmounted",
                                             !.mounted = FALSE]]

\* LayoutRow.tsx lines 550-556: a mounted ExtensionDetails
InitExtensionDetails(props) ==
  /\ extensionProps \in props
  /\ extensionMounted = TRUE
  /\ isInstalled = extensionProps.installed
  /\ toasts = <<>>
  /\ registryCalls = <<>>
  /\ analyticsEvents = <<>>
  /\ runs = <<>>

----------------------------------------------------------------------------
(* The panel as a state machine: configuration changes, block loading and  *)
(* the calls useMessageReducer makes to restore and addMessages.           *)

XAxisVals == {"timestamp", "index", "currentCustom"}

\* the raw following widths of the reducer runs: none and "1"
ReducerWidths == {None, Some(<<"1">>)}

\* the path lists of the reducer runs: the default configuration's list
\* (part_003 line 548) and the lists over two paths of one topic
ConfigPaths == {"/a.x", "/a.y"}
YAxisPathLists == SeqsUpTo(ConfigPaths, MaxPaths) \cup {<<"">>}
XAxisPaths == {None, Some("/a.x"), Some("/b.x")}

Batches == SeqsUpTo(LiveEvents, MaxBatch)

InitClock == startTime = None /\ currentTime = None /\ endTime = None

NoRun == [blocks |-> <<>>, paths |-> <<>>, dId |-> 0, out |-> EmptyObject]

\* the first render computes plotDataForBlocks over no blocks
InitBlocks ==
  /\ blocks = <<>>
  /\ decodeId = 0
  /\ memo = EmptyObject
  /\ extractCalls = EmptyObject
  /\ extracted = EmptyObject
  /\ plotDataForBlocks = EmptyObject
  /\ lastRun = NoRun
  /\ prevRun = NoRun
  /\ blockCalls = 0
  /\ blockSteps = 0

\* useMessageReducer starts from restore(undefined)
InitReducer ==
  /\ accumulated = restore(allPaths, None)
  /\ accRef = 0
  /\ calls = 0
  /\ lastOp = "init"
  /\ prevAcc = EmptyObject
  /\ prevRef = 0
  /\ inputAfter = EmptyObject
  /\ msgEvents = <<>>

Init ==
  /\ xAxisVal \in XAxisVals
  /\ followingViewWidth \in ReducerWidths
  /\ yAxisPaths \in YAxisPathLists
  /\ xAxisPath = None
  /\ InitClock
  /\ InitBlocks
  /\ InitReducer
  /\ InitProblems
  /\ InitLayoutStorage(NoLayoutOptions)
  /\ InitLayoutRow
  /\ InitExtensionDetails(NoExtensionProps)

\* part_003 lines 115-122: the value the memoized body returns for a key it
\* runs for, recorded once per key at the call that first caches the key;
\* paths is the path list of the decode function of that call
firstExtracted(cached, paths) ==
  [key \in DOMAIN cached |->
     IF key \in DOMAIN extracted THEN extracted[key] ELSE extractBlock(paths, key[2])]

\* the blocks are accumulated in every x-axis mode
RecomputePlotDataForBlocks_AlwaysAccumulate(xv, paths, dId, blockSeq) ==
  /\ blockSteps' = blockSteps + 1
  /\ LET r == getBlockItemsByPath([memo |-> memo, runs |-> extractCalls],
                                  paths, dId, blockSeq)
     IN  /\ plotDataForBlocks' = r.ret
         /\ memo' = r.cache.memo
         /\ extractCalls' = r.cache.runs
         /\ extracted' = firstExtracted(r.cache.memo, paths)
         /\ lastRun' = [blocks |-> blockSeq, paths |-> paths, dId |-> dId, out |-> r.ret]
         /\ prevRun' = lastRun
         /\ blockCalls' = blockCalls + 1

\* part_003 lines 274-279: a dependency of the useMemo changed, and
\* plotDataForBlocks is computed anew for the mode xv, the decode function
\* dId of the path list paths, and the blocks blockSeq
RecomputePlotDataForBlocks(xv, paths, dId, blockSeq) ==
  /\ blockSteps' = blockSteps + 1
  /\ IF showSingleCurrentMessageOf(xv)
     THEN /\ plotDataForBlocks' = EmptyObject
          /\ UNCHANGED <<memo, extractCalls, extracted, lastRun, prevRun, blockCalls>>
     ELSE LET r == getBlockItemsByPath([memo |-> memo, runs |-> extractCalls],
                                       paths, dId, blockSeq)
          IN  /\ plotDataForBlocks' = r.ret
              /\ memo' = r.cache.memo
              /\ extractCalls' = r.cache.runs
              /\ extracted' = firstExtracted(r.cache.memo, paths)
              /\ lastRun' = [blocks |-> blockSeq, paths |-> paths, dId |-> dId, out |-> r.ret]
              /\ prevRun' = lastRun
              /\ blockCalls' = blockCalls + 1

\* useMessageReducer hands a batch of live events to addMessages
AddMessages(deps, events) ==
  /\ LET r == addMessages(deps, accumulated, events)
     IN  /\ accumulated' = r.acc
         /\ inputAfter' = r.acc
         /\ accRef' = IF r.changed THEN calls + 1 ELSE accRef
  /\ calls' = calls + 1
  /\ lastOp' = "addMessages"
  /\ prevAcc' = accumulated
  /\ prevRef' = accRef
  /\ msgEvents' = events
  /\ UNCHANGED <<problemVars, storageVars, browserVars>>
  /\ UNCHANGED <<cfgVars, clockVars, blockVars>>

\* the path list is saved: allPaths changes, so restore is rebuilt and
\* applied to the reducer's state, and the decode function is rebuilt and
\* plotDataForBlocks computed anew
SavePaths(yp, xp) ==
  /\ allPathsOf(yp, xp) # allPaths
  /\ yAxisPaths' = yp
  /\ xAxisPath' = xp
  /\ accumulated' = restore(allPathsOf(yp, xp), Some(accumulated))
  /\ inputAfter' = accumulated
  /\ accRef' = calls + 1
  /\ calls' = calls + 1
  /\ lastOp' = "restore"
  /\ prevAcc' = accumulated
  /\ prevRef' = accRef
  /\ msgEvents' = <<>>
  /\ decodeId' = decodeId + 1
  /\ RecomputePlotDataForBlocks(xAxisVal, allPathsOf(yp, xp), decodeId + 1, blocks)
  /\ UNCHANGED <<problemVars, storageVars, browserVars>>
  /\ UNCHANGED <<xAxisVal, followingViewWidth, clockVars, blocks>>

\* the player finishes loading block b, the next of the sequence
LoadBlock(b) ==
  /\ blocks' = Append(blocks, b)
  /\ RecomputePlotDataForBlocks(xAxisVal, allPaths, decodeId, Append(blocks, b))
  /\ lastOp' = "loadBlock"
  /\ UNCHANGED <<problemVars, storageVars, browserVars>>
  /\ UNCHANGED <<cfgVars, clockVars, decodeId, accumulated, accRef, calls,
                 prevAcc, prevRef, inputAfter, msgEvents>>

\* the player seeks or reloads: the block sequence starts over
ResetBlocks ==
  /\ blocks # <<>>
  /\ blocks' = <<>>
  /\ RecomputePlotDataForBlocks(xAxisVal, allPaths, decodeId, <<>>)
  /\ lastOp' = "resetBlocks"
  /\ UNCHANGED <<problemVars, storageVars, browserVars>>
  /\ UNCHANGED <<cfgVars, clockVars, decodeId, accumulated, accRef, calls,
                 prevAcc, prevRef, inputAfter, msgEvents>>

\* the x-axis mode is saved
SaveXAxisVal(xv) ==
  /\ xv # xAxisVal
  /\ xAxisVal' = xv
  /\ RecomputePlotDataForBlocks(xv, allPaths, decodeId, blocks)
  /\ lastOp' = "saveXAxisVal"
  /\ UNCHANGED <<problemVars, storageVars, browserVars>>
  /\ UNCHANGED <<followingViewWidth, yAxisPaths, xAxisPath, clockVars, blocks, decodeId,
                 accumulated, accRef, calls, prevAcc, prevRef, inputAfter, msgEvents>>

\* The reducer runs: the mode and the following width are those of the
\* start, the path list is edited, the player loads the blocks of the
\* recording in pool order.
Next ==
  \/ LET deps == addMessagesDeps
     IN  \E events \in Batches : calls < MaxCalls /\ AddMessages(deps, events)
  \/ \E yp \in YAxisPathLists, xp \in XAxisPaths : calls < MaxCalls /\ SavePaths(yp, xp)
  \/ Len(blocks) < MaxLoaded /\ LoadBlock(Len(blocks) + 1)

Spec == Init /\ [][Next]_vars

\* the same panel, configured from the start with an x-axis path of a second
\* topic, which the first block of the recording does not hold
InitTwoTopics ==
  /\ xAxisVal \in XAxisVals
  /\ followingViewWidth = None
  /\ yAxisPaths \in YAxisPathLists
  /\ xAxisPath = Some("/b.x")
  /\ InitClock
  /\ InitBlocks
  /\ InitReducer
  /\ InitProblems
  /\ InitLayoutStorage(NoLayoutOptions)
  /\ InitLayoutRow
  /\ InitExtensionDetails(NoExtensionProps)

SpecTwoTopics == InitTwoTopics /\ [][Next]_vars

\* The Block Accumulator runs: no live events; blocks of the pool arrive in
\* any order, the sequence is reset, the mode and the path list are edited.
BlockPathLists == {<<"/a.x", "/a.y">>, <<"/a.x">>, <<"">>}

InitBlockRuns ==
  /\ xAxisVal = "timestamp"
  /\ followingViewWidth = None
  /\ yAxisPaths \in BlockPathLists
  /\ xAxisPath = Some("/b.x")
  /\ InitClock
  /\ InitBlocks
  /\ InitReducer
  /\ InitProblems
  /\ InitLayoutStorage(NoLayoutOptions)
  /\ InitLayoutRow
  /\ InitExtensionDetails(NoExtensionProps)

NextBlocks ==
  \/ \E b \in BlockIds :
       blockSteps < MaxBlockSteps /\ Len(blocks) < MaxBlocks /\ LoadBlock(b)
  \/ blockSteps < MaxBlockSteps /\ ResetBlocks
  \/ \E xv \in {"timestamp", "index"} : blockSteps < MaxBlockSteps /\ SaveXAxisVal(xv)
  \/ \E yp \in BlockPathLists : blockSteps < MaxBlockSteps /\ SavePaths(yp, xAxisPath)

SpecBlocks == InitBlockRuns /\ [][NextBlocks]_vars

\* The view window policy runs: the panel has the default path list; the
\* following width and the mode are edited and the player reports its
\* times.  The raw widths: none, "", "0", "1", "-1", "abc", "0.5", " 2 ",
\* "+1", "1.", ".5", "-0", ".".
ViewWidths ==
  {None, Some(<<>>), Some(<<"0">>), Some(<<"1">>), Some(<<"-", "1">>),
   Some(<<"a", "b", "c">>), Some(<<"0", ".", "5">>), Some(<<" ", "2", " ">>),
   Some(<<"+", "1">>), Some(<<"1", ".">>), Some(<<".", "5">>), Some(<<"-", "0">>),
   Some(<<".">>)}

\* playerState.activeData: start <= current <= end
ActiveDatas ==
  {[startTime |-> Time(s), currentTime |-> Time(c), endTime |-> Time(e)] :
     s \in 0..1, c \in 0..MaxTime, e \in 0..MaxTime} \ 
  {ad \in [startTime : {Time(s) : s \in 0..1}, currentTime : {Time(c) : c \in 0..MaxTime},
           endTime : {Time(e) : e \in 0..MaxTime}] :
     ad.currentTime.sec < ad.startTime.sec \/ ad.endTime.sec < ad.currentTime.sec}

\* the following width is saved
SaveFollowingViewWidth(w) ==
  /\ w # followingViewWidth
  /\ followingViewWidth' = w
  /\ lastOp' = "saveFollowingViewWidth"
  /\ UNCHANGED <<problemVars, storageVars, browserVars>>
  /\ UNCHANGED <<xAxisVal, yAxisPaths, xAxisPath, clockVars, blockVars, accumulated, accRef,
                 calls, prevAcc, prevRef, inputAfter, msgEvents>>

\* part_003 lines 203-205: the player state changes; activeData is optional
PlayerActiveData(activeData) ==
  /\ startTime' = IF activeData = None THEN None ELSE Some(The(activeData).startTime)
  /\ currentTime' = IF activeData = None THEN None ELSE Some(The(activeData).currentTime)
  /\ endTime' = IF activeData = None THEN None ELSE Some(The(activeData).endTime)
  /\ lastOp' = "playerState"
  /\ UNCHANGED <<problemVars, storageVars, browserVars>>
  /\ UNCHANGED <<cfgVars, blockVars, accumulated, accRef, calls, prevAcc, prevRef,
                 inputAfter, msgEvents>>

InitView ==
  /\ xAxisVal = "timestamp"
  /\ followingViewWidth = None
  /\ yAxisPaths = <<"">>
  /\ xAxisPath = None
  /\ InitClock
  /\ InitBlocks
  /\ InitReducer
  /\ InitProblems
  /\ InitLayoutStorage(NoLayoutOptions)
  /\ InitLayoutRow
  /\ InitExtensionDetails(NoExtensionProps)

NextView ==
  \/ \E w \in ViewWidths : SaveFollowingViewWidth(w)
  \/ \E xv \in XAxisVals : blockSteps < MaxBlockSteps /\ SaveXAxisVal(xv)
  \/ \E activeData \in {None} \cup {Some(ad) : ad \in ActiveDatas} : PlayerActiveData(activeData)

SpecView == InitView /\ [][NextView]_vars

\* The Path Index runs: the panel starts with any path list over the path
\* strings of the model, unparseable ones included, and the list is edited.
IndexPathLists == SeqsUpTo(PathStrings, MaxPaths)
IndexXAxisPaths == XAxisPaths \cup {Some("")}

InitIndex ==
  /\ xAxisVal = "timestamp"
  /\ followingViewWidth = None
  /\ yAxisPaths \in IndexPathLists
  /\ xAxisPath \in IndexXAxisPaths
  /\ InitClock
  /\ InitBlocks
  /\ InitReducer
  /\ InitProblems
  /\ InitLayoutStorage(NoLayoutOptions)
  /\ InitLayoutRow
  /\ InitExtensionDetails(NoExtensionProps)

NextIndex ==
  \E yp \in IndexPathLists, xp \in IndexXAxisPaths : calls < MaxIndexEdits /\ SavePaths(yp, xp)

SpecIndex == InitIndex /\ [][NextIndex]_vars

\* Coverage runs: the paths "/a.x", "/a.y" and "/b.x" in the mode
\* timestamp; blocks of the pool arrive in any order while single live
\* events are delivered.
CoverageBatches == {<<event>> : event \in LiveEvents}

InitCoverage ==
  /\ xAxisVal = "timestamp"
  /\ followingViewWidth = None
  /\ yAxisPaths = <<"/a.x", "/a.y">>
  /\ xAxisPath = Some("/b.x")
  /\ InitClock
  /\ InitBlocks
  /\ InitReducer
  /\ InitProblems
  /\ InitLayoutStorage(NoLayoutOptions)
  /\ InitLayoutRow
  /\ InitExtensionDetails(NoExtensionProps)

NextCoverage ==
  \/ \E b \in BlockIds : Len(blocks) < MaxCoverBlocks /\ LoadBlock(b)
  \/ LET deps == addMessagesDeps
     IN  \E events \in CoverageBatches : calls < MaxCalls /\ AddMessages(deps, events)

SpecCoverage == InitCoverage /\ [][NextCoverage]_vars

\* The mode runs: the x-axis mode is edited between the calls of the
\* reducer, so one state object meets addMessages in several modes; the
\* path list is edited too, and batches of one event arrive.
InitModes ==
  /\ xAxisVal = "timestamp"
  /\ followingViewWidth \in ReducerWidths
  /\ yAxisPaths = <<"/a.x", "/a.y">>
  /\ xAxisPath = None
  /\ InitClock
  /\ InitBlocks
  /\ InitReducer
  /\ InitProblems
  /\ InitLayoutStorage(NoLayoutOptions)
  /\ InitLayoutRow
  /\ InitExtensionDetails(NoExtensionProps)

NextModes ==
  \/ LET deps == addMessagesDeps
     IN  \E events \in CoverageBatches : calls < MaxModeCalls /\ AddMessages(deps, events)
  \/ \E yp \in BlockPathLists : calls < MaxModeCalls /\ SavePaths(yp, xAxisPath)
  \/ \E xv \in XAxisVals : blockSteps < MaxModeEdits /\ SaveXAxisVal(xv)

SpecModes == InitModes /\ [][NextModes]_vars

\* The append runs: timestamp mode with a following width that is absent
\* or not positive, a path list with or without a path listed twice;
\* batches of up to MaxBatch events arrive and the first block is loaded.
AppendWidths == {None, Some(<<"0">>)}
AppendPathLists == {<<"/a.x", "/a.y">>, <<"/a.y", "/a.y">>}

InitAppend ==
  /\ xAxisVal = "timestamp"
  /\ followingViewWidth \in AppendWidths
  /\ yAxisPaths \in AppendPathLists
  /\ xAxisPath = None
  /\ InitClock
  /\ InitBlocks
  /\ InitReducer
  /\ InitProblems
  /\ InitLayoutStorage(NoLayoutOptions)
  /\ InitLayoutRow
  /\ InitExtensionDetails(NoExtensionProps)

NextAppend ==
  \/ LET deps == addMessagesDeps
     IN  \E events \in Batches : calls < MaxCalls /\ AddMessages(deps, events)
  \/ Len(blocks) < MaxLoaded /\ LoadBlock(Len(blocks) + 1)

SpecAppend == InitAppend /\ [][NextAppend]_vars

\* The PlayerProblemManager runs: a player calls its methods in any order.
Manager == [byId |-> problemsById, cache |-> problemsCache, made |-> arraysMade]

\* the manager's state becomes m after the call name(args), which returned
\* result; kind is what the call did to the set of problems
ManagerCall(m, name, args, result, kind) ==
  /\ problemsById' = m.byId
  /\ problemsCache' = m.cache
  /\ arraysMade' = m.made
  /\ problemOp' = [name |-> name, args |-> args, result |-> result,
                   before |-> problemsById]
  /\ problemSteps' = problemSteps + 1
  /\ sinceReturned' = sinceReturned \cup {kind}
  /\ UNCHANGED returns
  /\ UNCHANGED <<cfgVars, clockVars, blockVars, reducerVars, storageVars, browserVars>>

CallProblems ==
  LET r == problems(Manager)
  IN  /\ problemsById' = r.m.byId
      /\ problemsCache' = r.m.cache
      /\ arraysMade' = r.m.made
      /\ returns' = Append(returns, [ref |-> r.ret.ref, items |-> r.ret.items,
                                      since |-> sinceReturned])
      /\ sinceReturned' = {}
      /\ problemOp' = [name |-> "problems", args |-> <<>>, result |-> FALSE,
                       before |-> problemsById]
      /\ problemSteps' = problemSteps + 1
      /\ UNCHANGED <<cfgVars, clockVars, blockVars, reducerVars, storageVars, browserVars>>

CallAddProblem(id, problem) ==
  ManagerCall(addProblem(Manager, id, problem), "addProblem", <<id, problem>>, FALSE, "added")

CallHasProblem(id) ==
  ManagerCall(Manager, "hasProblem", <<id>>, hasProblem(Manager, id), "asked")

CallRemoveProblem(id) ==
  LET r == removeProblem(Manager, id)
  IN  ManagerCall(r.m, "removeProblem", <<id>>, r.ret,
                  IF r.ret THEN "removed" ELSE "notRemoved")

CallRemoveProblems(predicate) ==
  LET r == removeProblems(Manager, predicate)
  IN  ManagerCall(r.m, "removeProblems", <<predicate>>, r.ret,
                  IF r.ret THEN "removed" ELSE "notRemoved")

CallClear == ManagerCall(clear(Manager), "clear", <<>>, FALSE, "cleared")

InitManager ==
  /\ xAxisVal = "timestamp"
  /\ followingViewWidth = None
  /\ yAxisPaths = <<"">>
  /\ xAxisPath = None
  /\ InitClock
  /\ InitBlocks
  /\ InitReducer
  /\ InitProblems
  /\ InitLayoutStorage(NoLayoutOptions)
  /\ InitLayoutRow
  /\ InitExtensionDetails(NoExtensionProps)

NextManager ==
  \/ problemSteps < MaxProblemSteps /\ CallProblems
  \/ \E id \in ProblemIds, problem \in Problems :
       problemSteps < MaxProblemSteps /\ CallAddProblem(id, problem)
  \/ \E id \in ProblemIds : problemSteps < MaxProblemSteps /\ CallHasProblem(id)
  \/ \E id \in ProblemIds : problemSteps < MaxProblemSteps /\ CallRemoveProblem(id)
  \/ \E predicate \in Predicates :
       problemSteps < MaxProblemSteps /\ CallRemoveProblems(predicate)
  \/ problemSteps < MaxProblemSteps /\ CallClear

SpecManager == InitManager /\ [][NextManager]_vars

\* The NamespacedLayoutStorage runs: the promises of the wrapped storage
\* settle, the constructor's function and the wrapper's methods go on after
\* their awaits, and callers call the methods at any moment.
Constructor ==
  [pc |-> migrationPc, awaited |-> awaited, migration |-> migration,
   storageCalls |-> storageCalls, logged |-> logged]

ConstructorBecomes(ctor) ==
  /\ migrationPc' = ctor.pc
  /\ awaited' = ctor.awaited
  /\ migration' = ctor.migration
  /\ storageCalls' = ctor.storageCalls
  /\ logged' = ctor.logged

\* the promise of migrateUnnamespacedLayouts or importLayouts settles and
\* the handler chained to it runs
SettleMigration(promise) ==
  /\ migrationPc \in {"awaitMigrate", "awaitImport"}
  /\ LET method == IF migrationPc = "awaitMigrate" THEN "migrateUnnamespacedLayouts"
                   ELSE "importLayouts"
         i == CHOOSE k \in 1..Len(storageCalls) : storageCalls[k].method = method
         chained == catchLogged(promise, IF migrationPc = "awaitMigrate"
                                         THEN "Migration failed:" ELSE "Import failed:")
     IN  /\ promise \in StorageOutcomes(method)
         /\ storageCalls' = [storageCalls EXCEPT ![i].outcome = promise]
         /\ awaited' = chained.promise
         /\ logged' = logged \o chained.logged
         /\ migrationPc' = IF migrationPc = "awaitMigrate" THEN "afterMigrate"
                           ELSE "afterImport"
  /\ UNCHANGED <<namespace, layoutOptions, migration, layoutCalls>>
  /\ UNCHANGED <<cfgVars, clockVars, blockVars, reducerVars, problemVars, browserVars>>

\* the constructor's function goes on after its await
ResumeMigration ==
  /\ migrationPc \in {"afterMigrate", "afterImport"}
  /\ ConstructorBecomes(resumeMigration(namespace, layoutOptions, Constructor))
  /\ UNCHANGED <<namespace, layoutOptions, layoutCalls>>
  /\ UNCHANGED <<cfgVars, clockVars, blockVars, reducerVars, problemVars, browserVars>>

\* NamespacedLayoutStorage.ts lines 41-56: a method of the wrapper is
\* called and runs up to its await of the migration
CallMethod(method) ==
  /\ Len(layoutCalls) < MaxLayoutCalls
  /\ layoutCalls' = Append(layoutCalls,
       [method |-> method, args |-> LayoutArgs(method), issued |-> migrationPc,
        pc |-> "awaitMigration", storageCall |-> 0, outcome |-> Pending])
  /\ UNCHANGED <<namespace, layoutOptions, migrationPc, awaited, migration, storageCalls,
                 logged>>
  /\ UNCHANGED <<cfgVars, clockVars, blockVars, reducerVars, problemVars, browserVars>>

\* the call c goes on after its await of the migration: a rejected
\* migration throws, otherwise the method of the wrapped storage is invoked
ResumeMethod(c) ==
  /\ layoutCalls[c].pc = "awaitMigration"
  /\ awaitMigration(migration)
  /\ IF migration.state = "rejected"
     THEN /\ layoutCalls' = [layoutCalls EXCEPT ![c].pc = "done",
                                                ![c].outcome = Rejected(migration.value)]
          /\ UNCHANGED storageCalls
     ELSE /\ storageCalls' =
               invoke(Constructor, layoutCalls[c].method,
                      storageArgs(namespace, layoutOptions, layoutCalls[c].args)).storageCalls
          /\ layoutCalls' = [layoutCalls EXCEPT ![c].pc = "awaitStorage",
                                                ![c].storageCall = Len(storageCalls) + 1]
  /\ UNCHANGED <<namespace, layoutOptions, migrationPc, awaited, migration, logged>>
  /\ UNCHANGED <<cfgVars, clockVars, blockVars, reducerVars, problemVars, browserVars>>

\* the promise of the invocation i of list, get, put or delete settles
SettleStorage(i, promise) ==
  /\ storageCalls[i].method \in LayoutMethods
  /\ storageCalls[i].outcome = Pending
  /\ promise \in StorageOutcomes(storageCalls[i].method)
  /\ storageCalls' = [storageCalls EXCEPT ![i].outcome = promise]
  /\ UNCHANGED <<namespace, layoutOptions, migrationPc, awaited, migration, logged,
                 layoutCalls>>
  /\ UNCHANGED <<cfgVars, clockVars, blockVars, reducerVars, problemVars, browserVars>>

\* the call c goes on after its await of the storage's promise, and ends
FinishMethod(c) ==
  /\ layoutCalls[c].pc = "awaitStorage"
  /\ storageCalls[layoutCalls[c].storageCall].outcome # Pending
  /\ layoutCalls' =
       [layoutCalls EXCEPT ![c].pc = "done",
                           ![c].outcome = methodResult(layoutCalls[c].method,
                                            storageCalls[layoutCalls[c].storageCall].outcome)]
  /\ UNCHANGED <<namespace, layoutOptions, migrationPc, awaited, migration, storageCalls,
                 logged>>
  /\ UNCHANGED <<cfgVars, clockVars, blockVars, reducerVars, problemVars, browserVars>>

InitLayouts ==
  /\ xAxisVal = "timestamp"
  /\ followingViewWidth = None
  /\ yAxisPaths = <<"">>
  /\ xAxisPath = None
  /\ InitClock
  /\ InitBlocks
  /\ InitReducer
  /\ InitProblems
  /\ InitLayoutStorage(LayoutOptions)
  /\ InitLayoutRow
  /\ InitExtensionDetails(NoExtensionProps)

NextLayouts ==
  \/ \E promise \in {Fulfilled("undefined"), Rejected("migrateError"), Rejected("importError")} :
       SettleMigration(promise)
  \/ ResumeMigration
  \/ \E method \in LayoutMethods : CallMethod(method)
  \/ \E c \in 1..Len(layoutCalls) : ResumeMethod(c)
  \/ \E i \in 1..Len(storageCalls) :
       \E promise \in UNION {StorageOutcomes(method) : method \in LayoutMethods} :
         SettleStorage(i, promise)
  \/ \E c \in 1..Len(layoutCalls) : FinishMethod(c)

SpecLayouts == InitLayouts /\ [][NextLayouts]_vars

\* The LayoutRow runs: the Delete menu item is clicked, dialogs resolve,
\* the callbacks chained to them run, and the row is unmounted.
\* LayoutRow.tsx lines 226-234: confirmDelete opens a dialog
ConfirmDelete ==
  /\ rowMounted
  /\ Len(dialogs) < MaxDialogs
  /\ dialogs' = Append(dialogs, [layout |-> RowLayout, response |-> "pending",
                                 handled |-> FALSE, mounted |-> TRUE])
  /\ UNCHANGED <<rowMounted, deleted, extensionVars>>
  /\ UNCHANGED <<cfgVars, clockVars, blockVars, reducerVars, problemVars, storageVars>>

\* the user answers the dialog d: its promise resolves
ResolveDialog(d, response) ==
  /\ dialogs[d].response = "pending"
  /\ dialogs' = [dialogs EXCEPT ![d].response = response]
  /\ UNCHANGED <<rowMounted, deleted, extensionVars>>
  /\ UNCHANGED <<cfgVars, clockVars, blockVars, reducerVars, problemVars, storageVars>>

\* LayoutRow.tsx lines 234-238: the callback chained to the promise of the
\* dialog d runs; the dialog keeps what isMounted() returned
ConfirmDeleteThen(d) ==
  /\ dialogs[d].response # "pending"
  /\ ~dialogs[d].handled
  /\ dialogs' = [dialogs EXCEPT ![d].handled = TRUE, ![d].mounted = rowMounted]
  /\ deleted' = deleted \o
       [k \in 1..Len(confirmDeleteThen(dialogs[d].response, rowMounted, dialogs[d].layout)) |->
          [layout |-> confirmDeleteThen(dialogs[d].response, rowMounted, dialogs[d].layout)[k],
           dialog |-> d]]
  /\ UNCHANGED <<rowMounted, extensionVars>>
  /\ UNCHANGED <<cfgVars, clockVars, blockVars, reducerVars, problemVars, storageVars>>

\* the row is unmounted: isMounted() returns false from now on
UnmountRow ==
  /\ rowMounted
  /\ rowMounted' = FALSE
  /\ UNCHANGED <<dialogs, deleted, extensionVars>>
  /\ UNCHANGED <<cfgVars, clockVars, blockVars, reducerVars, problemVars, storageVars>>

InitRow ==
  /\ xAxisVal = "timestamp"
  /\ followingViewWidth = None
  /\ yAxisPaths = <<"">>
  /\ xAxisPath = None
  /\ InitClock
  /\ InitBlocks
  /\ InitReducer
  /\ InitProblems
  /\ InitLayoutStorage(NoLayoutOptions)
  /\ InitLayoutRow
  /\ InitExtensionDetails(NoExtensionProps)

NextRow ==
  \/ ConfirmDelete
  \/ \E d \in 1..Len(dialogs), response \in ConfirmResponses : ResolveDialog(d, response)
  \/ \E d \in 1..Len(dialogs) : ConfirmDeleteThen(d)
  \/ UnmountRow

SpecRow == InitRow /\ [][NextRow]_vars

\* The ExtensionDetails runs: install and uninstall are called, the
\* registry's promises settle, the callbacks go on after their awaits, and
\* the component is unmounted.
Extension ==
  [isInstalled |-> isInstalled, toasts |-> toasts, registryCalls |-> registryCalls,
   analyticsEvents |-> analyticsEvents]

ExtensionBecomes(ext) ==
  /\ isInstalled' = ext.isInstalled
  /\ toasts' = ext.toasts
  /\ registryCalls' = ext.registryCalls
  /\ analyticsEvents' = ext.analyticsEvents

\* LayoutRow.tsx lines 572-583: install is called, by the Install button
\* (rendered when the flag is false and extension.foxe is defined, lines
\* 635-656) or otherwise, and runs up to its first await
CallInstall ==
  /\ extensionMounted
  /\ Len(runs) < MaxRuns
  /\ LET r == install(extensionProps, Extension,
                      NewRun("install", ~isInstalled /\ extensionProps.foxe # None))
     IN  /\ ExtensionBecomes(r.ext)
         /\ runs' = Append(runs, r.run)
  /\ UNCHANGED <<extensionProps, extensionMounted, rowVars>>
  /\ UNCHANGED <<cfgVars, clockVars, blockVars, reducerVars, problemVars, storageVars>>

\* LayoutRow.tsx lines 596-597: the Uninstall button, rendered when the
\* flag is true, calls uninstall
CallUninstall ==
  /\ extensionMounted
  /\ isInstalled
  /\ Len(runs) < MaxRuns
  /\ LET r == uninstall(Extension, NewRun("uninstall", TRUE))
     IN  /\ ExtensionBecomes(r.ext)
         /\ runs' = Append(runs, r.run)
  /\ UNCHANGED <<extensionProps, extensionMounted, rowVars>>
  /\ UNCHANGED <<cfgVars, clockVars, blockVars, reducerVars, problemVars, storageVars>>

\* the promise of the registry invocation i settles
SettleRegistry(i, promise) ==
  /\ registryCalls[i].outcome = Pending
  /\ promise \in RegistryOutcomes(registryCalls[i].method)
  /\ registryCalls' = [registryCalls EXCEPT ![i].outcome = promise]
  /\ UNCHANGED <<extensionProps, extensionMounted, isInstalled, toasts, analyticsEvents,
                 runs, rowVars>>
  /\ UNCHANGED <<cfgVars, clockVars, blockVars, reducerVars, problemVars, storageVars>>

\* the call r goes on after its await
ResumeRun(r) ==
  /\ runs[r].pc \in {"awaitDownload", "awaitInstall", "awaitUninstall"}
  /\ registryCalls[runs[r].awaits].outcome # Pending
  /\ LET next == IF runs[r].kind = "install"
                 THEN installResume(extensionMounted, Extension, runs[r])
                 ELSE uninstallResume(extensionMounted, Extension, runs[r])
     IN  /\ ExtensionBecomes(next.ext)
         /\ runs' = [runs EXCEPT ![r] = next.run]
  /\ UNCHANGED <<extensionProps, extensionMounted, rowVars>>
  /\ UNCHANGED <<cfgVars, clockVars, blockVars, reducerVars, problemVars, storageVars>>

\* the component is unmounted: isMounted() returns false from now on
UnmountExtension ==
  /\ extensionMounted
  /\ extensionMounted' = FALSE
  /\ UNCHANGED <<extensionProps, isInstalled, toasts, registryCalls, analyticsEvents, runs,
                 rowVars>>
  /\ UNCHANGED <<cfgVars, clockVars, blockVars, reducerVars, problemVars, storageVars>>

InitExtension ==
  /\ xAxisVal = "timestamp"
  /\ followingViewWidth = None
  /\ yAxisPaths = <<"">>
  /\ xAxisPath = None
  /\ InitClock
  /\ InitBlocks
  /\ InitReducer
  /\ InitProblems
  /\ InitLayoutStorage(NoLayoutOptions)
  /\ InitLayoutRow
  /\ InitExtensionDetails(ExtensionProps)

NextExtension ==
  \/ CallInstall
  \/ CallUninstall
  \/ \E i \in 1..Len(registryCalls) :
       \E promise \in UNION {RegistryOutcomes(method) :
                               method \in {"downloadExtension", "installExtension",
                                           "uninstallExtension"}} :
         SettleRegistry(i, promise)
  \/ \E r \in 1..Len(runs) : ResumeRun(r)
  \/ UnmountExtension

SpecExtension == InitExtension /\ [][NextExtension]_vars

----------------------------------------------------------------------------
(* Vocabulary of the properties of the streaming reducer.  They speak of   *)
(* the latest call: prevAcc and prevRef are the state object before it,    *)
(* msgEvents the batch, accumulated and accRef the result.                 *)

\* path is in the Path Index under topic
Indexed(path, topic) ==
  topic \in DOMAIN topicToPaths /\ path \in Range(topicToPaths[topic])

\* how often the Path Index lists path under topic
Occurrences(path, topic) ==
  Cardinality({i \in 1..Len(topicToPaths[topic]) : topicToPaths[topic][i] = path})

\* the event yields a sample for path: path is indexed under the event's
\* topic, is not block-covered, and extraction succeeds
Yields(path, msgEvent) ==
  /\ Indexed(path, msgEvent.topic)
  /\ path \notin blockPathsMemo
  /\ cachedGetMessagePathDataItems(path, msgEvent) # None

SampleOf(path, msgEvent) ==
  [queriedData |-> The(cachedGetMessagePathDataItems(path, msgEvent)),
   receiveTime |-> msgEvent.receiveTime,
   headerStamp |-> getTimestampForMessage(msgEvent.message)]

RECURSIVE YieldedSamples(_, _)
\* the samples the events of a batch yield for path, in delivery order, one
\* per listing of path in the Path Index
YieldedSamples(path, events) ==
  IF events = <<>> THEN <<>>
  ELSE (IF Yields(path, Head(events))
        THEN [i \in 1..Occurrences(path, Head(events).topic) |-> SampleOf(path, Head(events))]
        ELSE <<>>) \o YieldedSamples(path, Tail(events))

\* range 0 of path in a state object, empty when the path has no entry
Range0(acc, path) == IF path \in DOMAIN acc THEN acc[path][1] ELSE <<>>

NoYield(events) ==
  \A i \in 1..Len(events) : \A path \in PathStrings : ~Yields(path, events[i])

\* C1: block precedence.  addMessages neither appends to nor replaces the
\* stream-view entry of a path that is among the keys of the Block
\* Accumulator output: whatever the batch, the entry is what it was before
\* the call, and a path without an entry gets none.
C1_BlockPrecedence ==
  lastOp = "addMessages" =>
    \A path \in blockPathsMemo :
      /\ (path \in DOMAIN prevAcc) = (path \in DOMAIN accumulated)
      /\ path \in DOMAIN prevAcc => accumulated[path] = prevAcc[path]

\* a batch with an event that extraction would serve arrives for a
\* block-covered path that already holds stream samples
C1_Witness ==
  /\ lastOp = "addMessages"
  /\ \E path \in blockPathsMemo :
       /\ Range0(prevAcc, path) # <<>>
       /\ accumulated[path] = prevAcc[path]
       /\ \E i \in 1..Len(msgEvents) :
            /\ Indexed(path, msgEvents[i].topic)
            /\ cachedGetMessagePathDataItems(path, msgEvents[i]) # None

\* C4: following-window trim.  In following mode with width W (and the
\* x-axis mode timestamp, where samples are appended), after a batch whose
\* last event has receive-time T, range 0 of every path that had a sample
\* appended holds exactly the previously held and the newly appended
\* samples with receive-time >= T - W, in their original order.
C4_FollowingWindowTrim ==
  (lastOp = "addMessages" /\ followingView # None /\ ~showSingleCurrentMessage) =>
    \A path \in PathStrings :
      LET appended == YieldedSamples(path, msgEvents)
          minStamp == toSec(msgEvents[Len(msgEvents)].receiveTime) - The(followingView).width
          inWindow(item) == toSec(item.receiveTime) >= minStamp
      IN  appended # <<>> =>
            /\ path \in DOMAIN accumulated
            /\ accumulated[path][1] = SelectSeq(Range0(prevAcc, path) \o appended, inWindow)

\* a path held samples older and newer than T - W, a sample was appended,
\* and the older ones are gone while the newer ones and the new one remain
C4_Witness ==
  /\ lastOp = "addMessages" /\ followingView # None /\ ~showSingleCurrentMessage
  /\ \E path \in DOMAIN accumulated :
       LET minStamp == toSec(msgEvents[Len(msgEvents)].receiveTime) - The(followingView).width
           held == Range0(prevAcc, path)
       IN  /\ YieldedSamples(path, msgEvents) # <<>>
           /\ \E i \in 1..Len(held) : toSec(held[i].receiveTime) < minStamp
           /\ \E i \in 1..Len(held) : toSec(held[i].receiveTime) >= minStamp
           /\ Len(accumulated[path][1]) >= 2
           /\ Len(accumulated[path][1]) < Len(held) + Len(YieldedSamples(path, msgEvents))

\* C5: referential stability.  When no event of the batch yields a sample
\* for an indexed path that is not block-covered, addMessages returns the
\* very object it was given, with its contents unchanged.
C5_ReferentialStability ==
  (lastOp = "addMessages" /\ NoYield(msgEvents)) =>
    /\ accRef = prevRef
    /\ accumulated = prevAcc
    /\ inputAfter = prevAcc

\* a non-empty state object meets a batch with an event of a topic outside
\* the Path Index and an event of an indexed topic whose extraction fails
C5_Witness ==
  /\ lastOp = "addMessages" /\ NoYield(msgEvents)
  /\ accRef = prevRef /\ prevAcc # EmptyObject
  /\ \E i \in 1..Len(msgEvents) : msgEvents[i].topic \notin DOMAIN topicToPaths
  /\ \E i \in 1..Len(msgEvents) :
       /\ msgEvents[i].topic \in DOMAIN topicToPaths
       /\ \A path \in Range(topicToPaths[msgEvents[i].topic]) :
            cachedGetMessagePathDataItems(path, msgEvents[i]) = None

\* C6: restore drops removed paths.  The result of restore(previous) has
\* as keys exactly the keys of previous that occur in the current path
\* list, each with the ranges it had; without a previous state the result
\* is the empty mapping.
C6_RestoreDropsRemovedPaths ==
  /\ lastOp = "restore" =>
       /\ DOMAIN accumulated = DOMAIN prevAcc \cap Range(allPaths)
       /\ \A path \in DOMAIN accumulated : accumulated[path] = prevAcc[path]
  /\ lastOp = "init" => accumulated = EmptyObject

\* state for two paths is restored under a path list with one of them
C6_Witness ==
  /\ lastOp = "restore"
  /\ DOMAIN prevAcc = {"/a.x", "/a.y"}
  /\ DOMAIN accumulated = {"/a.x"}
  /\ accumulated["/a.x"][1] # <<>>

\* C7: single-current-message mode.  With the x-axis mode index or
\* currentCustom, after a batch every path for which an event of the batch
\* yielded a sample has exactly one range with exactly one sample: that of
\* the last such event in delivery order.
C7_SingleCurrentMessage ==
  (lastOp = "addMessages" /\ xAxisVal \in {"index", "currentCustom"}) =>
    \A path \in PathStrings :
      LET yielding == {i \in 1..Len(msgEvents) : Yields(path, msgEvents[i])}
      IN  yielding # {} =>
            LET last == CHOOSE i \in yielding : \A j \in yielding : j <= i
            IN  /\ path \in DOMAIN accumulated
                /\ accumulated[path] = << <<SampleOf(path, msgEvents[last])>> >>

\* a path that held a sample receives two events with different
\* receive-times in one batch, followed by an event that yields nothing
C7_Witness ==
  /\ lastOp = "addMessages" /\ xAxisVal \in {"index", "currentCustom"}
  /\ \E path \in DOMAIN prevAcc :
       /\ Len(msgEvents) = 2
       /\ Yields(path, msgEvents[1]) /\ Yields(path, msgEvents[2])
       /\ msgEvents[1].receiveTime # msgEvents[2].receiveTime
       /\ prevAcc[path][1][1].receiveTime # msgEvents[2].receiveTime
       /\ accumulated[path] = << <<SampleOf(path, msgEvents[2])>> >>

\* C9: merge.  The merged mapping has the keys of the block view and of
\* the stream view; a path of the block view has the block view's ranges,
\* also when the stream view has an entry for it, and a path only in the
\* stream view has the stream view's ranges.
C9_Merge ==
  /\ DOMAIN allPlotData = DOMAIN plotDataForBlocks \cup DOMAIN accumulated
  /\ \A path \in DOMAIN plotDataForBlocks : allPlotData[path] = plotDataForBlocks[path]
  /\ \A path \in DOMAIN accumulated \ DOMAIN plotDataForBlocks :
       allPlotData[path] = accumulated[path]

\* a path with different block and stream ranges, beside a stream-only path
C9_Witness ==
  /\ \E path \in DOMAIN plotDataForBlocks \cap DOMAIN accumulated :
       plotDataForBlocks[path] # accumulated[path]
  /\ DOMAIN accumulated \ DOMAIN plotDataForBlocks # {}

----------------------------------------------------------------------------
(* Vocabulary of the properties of the Block Accumulator.  They speak of   *)
(* a getBlockItemsByPath call, run = [blocks, paths, dId, out], and of     *)
(* what extraction produces for each block of its sequence alone.          *)

\* the samples extraction yields for path from the block at index i (from
\* 1) of the run, and whether that block contributes an entry for path
Contributes(run, i, path) == path \in DOMAIN extractBlock(run.paths, run.blocks[i])
BlockSamples(run, i, path) == extractBlock(run.paths, run.blocks[i])[path][1]

\* the indices at which a maximal run of contributing blocks starts
RunStarts(run, path) ==
  {i \in 1..Len(run.blocks) :
     Contributes(run, i, path) /\ (i = 1 \/ ~Contributes(run, i - 1, path))}

\* the start of the k-th maximal run, and the end of the run starting at s
KthStart(run, path, k) ==
  CHOOSE s \in RunStarts(run, path) :
    Cardinality({t \in RunStarts(run, path) : t <= s}) = k
RunEnd(run, path, s) ==
  CHOOSE e \in s..Len(run.blocks) :
    /\ \A j \in s..e : Contributes(run, j, path)
    /\ e = Len(run.blocks) \/ ~Contributes(run, e + 1, path)

RECURSIVE ConcatBlocks(_, _, _, _)
\* the samples of the blocks s..e for path, in index order
ConcatBlocks(run, path, s, e) ==
  IF e < s THEN <<>>
  ELSE ConcatBlocks(run, path, s, e - 1) \o BlockSamples(run, e, path)

RECURSIVE SumLen(_, _, _, _)
SumLen(run, path, s, e) ==
  IF e < s THEN 0 ELSE SumLen(run, path, s, e - 1) + Len(BlockSamples(run, e, path))

\* C2: gap detection.  The output has an entry for exactly the paths some
\* block contributes to, with one segment per maximal run of consecutive
\* contributing block indices, each as long as the samples of its run: a
\* block index that does not contribute separates the segments of the
\* blocks before and after it.
C2_GapDetection ==
  blockCalls > 0 =>
    /\ DOMAIN lastRun.out =
         {path \in PathStrings : \E i \in 1..Len(lastRun.blocks) : Contributes(lastRun, i, path)}
    /\ \A path \in DOMAIN lastRun.out :
         /\ Len(lastRun.out[path]) = Cardinality(RunStarts(lastRun, path))
         /\ \A k \in 1..Len(lastRun.out[path]) :
              LET s == KthStart(lastRun, path, k)
              IN  Len(lastRun.out[path][k]) = SumLen(lastRun, path, s, RunEnd(lastRun, path, s))

\* blocks [B0(P: s1, s2), B1(no P), B2(P: s3)] give the segments [s1, s2]
\* and [s3]
C2_Witness ==
  /\ blockCalls > 0
  /\ lastRun.blocks = <<1, 2, 3>>
  /\ "/a.x" \in DOMAIN lastRun.out
  /\ Len(lastRun.out["/a.x"]) = 2
  /\ Len(lastRun.out["/a.x"][1]) = 2
  /\ lastRun.out["/a.x"][2] = BlockSamples(lastRun, 3, "/a.x")

\* C3: contiguous merge.  The samples of consecutive contributing blocks
\* are in one segment: every segment is the concatenation, in block index
\* order, of the samples of the blocks of its maximal run.
C3_ContiguousMerge ==
  blockCalls > 0 =>
    \A path \in DOMAIN lastRun.out :
      \A k \in 1..Cardinality(RunStarts(lastRun, path)) :
        LET s == KthStart(lastRun, path, k)
        IN  /\ k <= Len(lastRun.out[path])
            /\ lastRun.out[path][k] =
                 ConcatBlocks(lastRun, path, s, RunEnd(lastRun, path, s))

\* blocks [B0(P: s1), B1(P: s2)] give the one segment [s1, s2]
C3_Witness ==
  /\ blockCalls > 0
  /\ lastRun.blocks = <<5, 3>>
  /\ "/a.x" \in DOMAIN lastRun.out
  /\ Len(BlockSamples(lastRun, 1, "/a.x")) = 1
  /\ Len(BlockSamples(lastRun, 2, "/a.x")) = 1
  /\ lastRun.out["/a.x"] =
       << BlockSamples(lastRun, 1, "/a.x") \o BlockSamples(lastRun, 2, "/a.x") >>

\* C8: idempotent block re-processing.  Two consecutive calls on the same
\* block sequence with the same decode function give equal outputs, and
\* the body of the memoized extraction has run at most once for every
\* (decode function, block identity).
C8_IdempotentReprocessing ==
  /\ (blockCalls >= 2 /\ lastRun.blocks = prevRun.blocks /\ lastRun.dId = prevRun.dId) =>
       lastRun.out = prevRun.out
  /\ \A key \in DOMAIN extractCalls : extractCalls[key] <= 1

\* the same sequence, with a segment that was extended in place, has been
\* accumulated twice
C8_Witness ==
  /\ blockCalls >= 2 /\ lastRun.blocks = prevRun.blocks /\ lastRun.dId = prevRun.dId
  /\ Len(lastRun.blocks) >= 2
  /\ \E path \in DOMAIN lastRun.out :
       \E k \in 1..Len(lastRun.out[path]) :
         Len(lastRun.out[path][k]) > Len(BlockSamples(lastRun, KthStart(lastRun, path, k), path))
  /\ lastRun.out = prevRun.out
  /\ \A i \in 1..Len(lastRun.blocks) : extractCalls[<<lastRun.dId, lastRun.blocks[i]>>] = 1

RECURSIVE Flatten(_)
\* the segments of a path's ranges, concatenated in order
Flatten(ranges) ==
  IF ranges = <<>> THEN <<>>
  ELSE Flatten(SubSeq(ranges, 1, Len(ranges) - 1)) \o ranges[Len(ranges)]

RECURSIVE ConcatAllBlocks(_, _, _)
\* the samples the blocks 1..e of the run hold for path, in index order; a
\* block without an entry for path holds none
ConcatAllBlocks(run, path, e) ==
  IF e = 0 THEN <<>>
  ELSE ConcatAllBlocks(run, path, e - 1) \o
         (IF Contributes(run, e, path) THEN BlockSamples(run, e, path) ELSE <<>>)

\* C21: block accumulation loses, duplicates and reorders nothing.  For
\* every path, the segments of the output concatenated in order equal the
\* samples each block's extraction result holds for the path, concatenated
\* in block index order.
C21_NothingLostOrReordered ==
  blockCalls > 0 =>
    \A path \in PathStrings :
      Flatten(IF path \in DOMAIN lastRun.out THEN lastRun.out[path] ELSE <<>>) =
        ConcatAllBlocks(lastRun, path, Len(lastRun.blocks))

\* three blocks, the second without the path: two segments, which hold the
\* three samples of the first and third blocks in block order
C21_Witness ==
  /\ blockCalls > 0
  /\ Len(lastRun.blocks) = 3
  /\ "/a.x" \in DOMAIN lastRun.out
  /\ Len(lastRun.out["/a.x"]) = 2
  /\ ~Contributes(lastRun, 2, "/a.x")
  /\ Len(Flatten(lastRun.out["/a.x"])) = 3
  /\ Flatten(lastRun.out["/a.x"]) =
       BlockSamples(lastRun, 1, "/a.x") \o BlockSamples(lastRun, 3, "/a.x")

\* C22: the accumulator never modifies a memoized extraction result.  Every
\* cached result is what the extraction body returned when it ran for that
\* decode function and block, and the cached results of the blocks of the
\* latest call are what extraction produces for each block alone.
C22_CacheNeverModified ==
  /\ DOMAIN memo = DOMAIN extracted
  /\ \A key \in DOMAIN memo : memo[key] = extracted[key]
  /\ \A i \in 1..Len(lastRun.blocks) :
       /\ <<lastRun.dId, lastRun.blocks[i]>> \in DOMAIN memo
       /\ memo[<<lastRun.dId, lastRun.blocks[i]>>] =
            extractBlock(lastRun.paths, lastRun.blocks[i])

\* two calls have accumulated blocks whose samples share one segment: the
\* segment was extended in place, and the cached result of the block that
\* started it still holds that block's samples only
C22_Witness ==
  /\ blockCalls >= 2
  /\ Len(lastRun.blocks) >= 2
  /\ "/a.x" \in DOMAIN lastRun.out
  /\ Contributes(lastRun, 1, "/a.x") /\ Contributes(lastRun, 2, "/a.x")
  /\ BlockSamples(lastRun, 1, "/a.x") # <<>> /\ BlockSamples(lastRun, 2, "/a.x") # <<>>
  /\ Len(lastRun.out["/a.x"][1]) > Len(BlockSamples(lastRun, 1, "/a.x"))
  /\ memo[<<lastRun.dId, lastRun.blocks[1]>>]["/a.x"] = << BlockSamples(lastRun, 1, "/a.x") >>

\* s is a prefix of t
IsPrefix(s, t) == Len(s) <= Len(t) /\ SubSeq(t, 1, Len(s)) = s

\* the output of accumulating the first n blocks of the run from scratch,
\* with the run's path set and decode function
PrefixOutput(run, n) ==
  getBlockItemsByPath([memo |-> memo, runs |-> extractCalls],
                      run.paths, run.dId, SubSeq(run.blocks, 1, n)).ret

\* long is short with, per path, at most the last segment extended and
\* further segments and paths added
ExtendsOutput(short, long) ==
  /\ DOMAIN short \subseteq DOMAIN long
  /\ \A path \in DOMAIN short :
       /\ Len(short[path]) <= Len(long[path])
       /\ \A k \in 1..(Len(short[path]) - 1) : long[path][k] = short[path][k]
       /\ Len(short[path]) > 0 =>
            IsPrefix(short[path][Len(short[path])], long[path][Len(short[path])])

\* C28: incremental equivalence.  For an unchanged path set, the output for
\* blocks[0..n+k) is the output for blocks[0..n) with, per path, at most
\* its last segment extended and further segments appended: no segment of
\* the shorter output other than the last differs.
C28_IncrementalEquivalence ==
  blockCalls > 0 =>
    \A n \in 0..Len(lastRun.blocks) : ExtendsOutput(PrefixOutput(lastRun, n), lastRun.out)

\* after the first of three blocks each of two paths has one segment; the
\* two later blocks extend the segment of one path and add a segment to
\* the other
C28_Witness ==
  /\ blockCalls > 0
  /\ Len(lastRun.blocks) = 3
  /\ {"/a.x", "/b.x"} \subseteq DOMAIN PrefixOutput(lastRun, 1)
  /\ Len(PrefixOutput(lastRun, 1)["/a.x"]) = 1
  /\ Len(PrefixOutput(lastRun, 1)["/b.x"]) = 1
  /\ Len(lastRun.out["/a.x"]) = 1
  /\ Len(lastRun.out["/a.x"][1]) > Len(PrefixOutput(lastRun, 1)["/a.x"][1])
  /\ Len(lastRun.out["/b.x"]) = 2
  /\ lastRun.out["/b.x"][1] = PrefixOutput(lastRun, 1)["/b.x"][1]

----------------------------------------------------------------------------
(* View window policy.                                                     *)

\* the raw width is present and converts to a number greater than zero
PositiveWidth ==
  /\ followingViewWidth # None
  /\ ~ToNumber(The(followingViewWidth)).nan
  /\ ToNumber(The(followingViewWidth)).tenths > 0

\* C10: view-window policy.  The default view is a following view of the
\* configured width exactly when the width is present and converts to a
\* number greater than zero, also when a fixed view can be computed;
\* otherwise the default view is the fixed view, if there is one.
C10_ViewWindowPolicy ==
  /\ PositiveWidth =>
       defaultView = Some([type |-> "following",
                           width |-> ToNumber(The(followingViewWidth)).tenths])
  /\ ~PositiveWidth =>
       /\ \A v \in defaultView : v.type # "following"
       /\ defaultView = fixedView

\* a positive width with the mode timestamp and start and end time known:
\* the fixed view can be computed and the following view is chosen
C10_Witness ==
  /\ PositiveWidth
  /\ fixedView # None
  /\ The(defaultView).type = "following"
  /\ The(defaultView).width = 5

\* C11: view-window selection without following.  When no positive
\* following width is configured, the default view is the fixed view from
\* 0 to endTime - startTime exactly when the x-axis mode is timestamp and
\* start and end time are both known, and is undefined otherwise.
C11_FixedViewWithoutFollowing ==
  ~PositiveWidth =>
    defaultView =
      IF xAxisVal = "timestamp" /\ startTime # None /\ endTime # None
      THEN Some([type |-> "fixed", minXValue |-> 0,
                 maxXValue |-> 10 * (The(endTime).sec - The(startTime).sec)])
      ELSE None

\* the width "0" is configured, the recording runs from second 1 to
\* second 2 and the mode is timestamp: the fixed view is [0, 1 s]
C11_Witness ==
  /\ followingViewWidth = Some(<<"0">>)
  /\ xAxisVal = "timestamp"
  /\ startTime = Some(Time(1)) /\ endTime = Some(Time(2))
  /\ defaultView = Some([type |-> "fixed", minXValue |-> 0, maxXValue |-> 10])

\* C16: current-time-since-start is currentTime - startTime when the
\* x-axis mode is timestamp and both times are known, and is undefined in
\* every other case.
C16_CurrentTimeSinceStart ==
  currentTimeSinceStart =
    IF xAxisVal = "timestamp" /\ currentTime # None /\ startTime # None
    THEN Some(10 * (The(currentTime).sec - The(startTime).sec))
    ELSE None

\* the times are known and the mode is index: the value is undefined
C16_Witness ==
  /\ xAxisVal = "index"
  /\ startTime = Some(Time(1)) /\ currentTime = Some(Time(2))
  /\ currentTimeSinceStart = None

----------------------------------------------------------------------------
(* Path Index.                                                             *)

\* the topic names the path strings of the model parse to
TopicNames ==
  {The(parseRosPath(path)).topicName : path \in {q \in PathStrings : parseRosPath(q) # None}}

\* the parseable paths of the path list whose topic is topic, in list order
PathsOfTopic(topic) ==
  LET refers(path) ==
        parseRosPath(path) # None /\ The(parseRosPath(path)).topicName = topic
  IN  SelectSeq(allPaths, refers)

\* C12: Path Index.  The index maps each topic to exactly the parseable
\* paths of the path list whose topic it is, in list order; an unparseable
\* path is under no topic, and a topic without a parseable path has no
\* entry.
C12_PathIndex ==
  /\ DOMAIN topicToPaths = {topic \in TopicNames : PathsOfTopic(topic) # <<>>}
  /\ \A topic \in DOMAIN topicToPaths : topicToPaths[topic] = PathsOfTopic(topic)

\* the list "/a.y", "a b" with the x-axis path "/a.x": two paths of one
\* topic around an unparseable one, and no entry for the topic "/b"
C12_Witness ==
  /\ yAxisPaths = <<"/a.y", "a b">>
  /\ xAxisPath = Some("/a.x")
  /\ DOMAIN topicToPaths = {"/a"}
  /\ topicToPaths["/a"] = <<"/a.y", "/a.x">>
  /\ lastOp = "restore"

----------------------------------------------------------------------------
(* Streaming reducer, continued.                                           *)

\* the events of the batch, by index, that are of a topic path is indexed
\* under and from which extraction for path succeeds
Serving(path, events) ==
  {i \in 1..Len(events) :
     /\ Indexed(path, events[i].topic)
     /\ cachedGetMessagePathDataItems(path, events[i]) # None}

\* the receive-time below which the batch trims, in tenths of a second
MinStamp == toSec(msgEvents[Len(msgEvents)].receiveTime) - The(followingView).width

\* C14: change signalling.  When an event of the batch yields a sample for
\* an indexed path that is not block-covered, addMessages returns an
\* object that is not the one it was given.
C14_ChangeSignalling ==
  (lastOp = "addMessages" /\ ~NoYield(msgEvents)) => accRef # prevRef

\* one of two paths held by the state receives a sample, the other none
C14_Witness ==
  /\ lastOp = "addMessages" /\ ~NoYield(msgEvents)
  /\ accRef # prevRef
  /\ \E path \in DOMAIN prevAcc : accumulated[path] # prevAcc[path]
  /\ \E path \in DOMAIN prevAcc : accumulated[path] = prevAcc[path]

\* C15: in the modes index and currentCustom the Block Accumulator output
\* is the empty mapping whatever blocks are loaded, no path is
\* block-covered, and a batch leaves on every indexed path the sample of
\* the last event from which extraction for the path succeeds.
C15_SingleModeSkipsBlocks ==
  xAxisVal \in {"index", "currentCustom"} =>
    /\ plotDataForBlocks = EmptyObject
    /\ blockPathsMemo = {}
    /\ lastOp = "addMessages" =>
         \A path \in PathStrings :
           LET serving == Serving(path, msgEvents)
           IN  serving # {} =>
                 LET last == CHOOSE i \in serving : \A j \in serving : j <= i
                 IN  /\ path \in DOMAIN accumulated
                     /\ accumulated[path] = << <<SampleOf(path, msgEvents[last])>> >>

\* a block with messages of the topic of "/a.x" is loaded, and a live
\* event of that topic reaches the path
C15_Witness ==
  /\ xAxisVal \in {"index", "currentCustom"}
  /\ blocks # <<>> /\ "a" \in DOMAIN BlockPool[blocks[1]] /\ BlockPool[blocks[1]]["a"] # <<>>
  /\ lastOp = "addMessages"
  /\ Serving("/a.x", msgEvents) # {}
  /\ plotDataForBlocks = EmptyObject
  /\ "/a.x" \in DOMAIN accumulated

C18_BoundedRetention ==
  (lastOp = "addMessages" /\ msgEvents # <<>> /\ followingView # None
     /\ xAxisVal = "timestamp") =>
    \A path \in DOMAIN accumulated :
      \A k \in 1..Len(accumulated[path]) :
        \A i \in 1..Len(accumulated[path][k]) :
          toSec(accumulated[path][k][i].receiveTime) >= MinStamp

\* C18: retention in following mode, as the code has it.  With the x-axis
\* mode timestamp, after a batch every sample retained for a path to which
\* the batch appended has a receive-time of at least T - W; a path to
\* which the batch appended nothing retains what it held.
C18_RetentionOfAppendedPaths ==
  (lastOp = "addMessages" /\ followingView # None /\ xAxisVal = "timestamp") =>
    \A path \in PathStrings :
      IF YieldedSamples(path, msgEvents) # <<>>
      THEN /\ path \in DOMAIN accumulated
           /\ Len(accumulated[path]) = 1
           /\ \A i \in 1..Len(accumulated[path][1]) :
                toSec(accumulated[path][1][i].receiveTime) >= MinStamp
      ELSE /\ (path \in DOMAIN accumulated) = (path \in DOMAIN prevAcc)
           /\ path \in DOMAIN prevAcc => accumulated[path] = prevAcc[path]

\* one path is appended to and trimmed, while another, to which the batch
\* appends nothing, retains a sample older than T - W
C18_Witness ==
  /\ lastOp = "addMessages" /\ followingView # None /\ xAxisVal = "timestamp"
  /\ \E path \in DOMAIN accumulated :
       /\ YieldedSamples(path, msgEvents) # <<>>
       /\ Len(accumulated[path][1]) < Len(Range0(prevAcc, path)) + Len(YieldedSamples(path, msgEvents))
  /\ \E path \in DOMAIN accumulated :
       /\ YieldedSamples(path, msgEvents) = <<>>
       /\ \E i \in 1..Len(accumulated[path][1]) :
            toSec(accumulated[path][1][i].receiveTime) < MinStamp

\* C20 as stated: the Path Index holds each path at most once under its
\* topic, and one live event appends at most one sample to the range of a
\* path (no range grows by more than the number of events of the batch).
C20_PathAtMostOnce ==
  /\ \A topic \in DOMAIN topicToPaths :
       \A path \in Range(topicToPaths[topic]) : Occurrences(path, topic) <= 1
  /\ (lastOp = "addMessages" /\ xAxisVal = "timestamp") =>
       \A path \in DOMAIN accumulated :
         Len(accumulated[path][1]) <= Len(Range0(prevAcc, path)) + Len(msgEvents)

----------------------------------------------------------------------------
(* Block coverage of live samples.                                         *)

\* the block at index i of the current sequence has an entry for path
HasEntry(i, path) == path \in DOMAIN extractBlock(allPaths, blocks[i])

\* every block of the current sequence contributed samples for path
CompleteBlockRange(path) ==
  /\ blocks # <<>>
  /\ \A i \in 1..Len(blocks) :
       HasEntry(i, path) /\ extractBlock(allPaths, blocks[i])[path][1] # <<>>

RECURSIVE ServedSamples(_, _)
\* the samples the events of a batch hold for path, block coverage aside
ServedSamples(path, events) ==
  IF events = <<>> THEN <<>>
  ELSE (IF Indexed(path, Head(events).topic)
           /\ cachedGetMessagePathDataItems(path, Head(events)) # None
        THEN [i \in 1..Occurrences(path, Head(events).topic) |-> SampleOf(path, Head(events))]
        ELSE <<>>) \o ServedSamples(path, Tail(events))

\* C19 as stated: live samples for a path are skipped only when every
\* block of the current sequence contributed samples for it; a path for
\* which only some blocks, or only empty block entries, exist accumulates
\* its live samples.
C19_SkippedOnlyWhenComplete ==
  (lastOp = "addMessages" /\ xAxisVal = "timestamp" /\ followingView = None) =>
    \A path \in PathStrings :
      (~CompleteBlockRange(path) /\ ServedSamples(path, msgEvents) # <<>>) =>
        /\ path \in DOMAIN accumulated
        /\ accumulated[path][1] = Range0(prevAcc, path) \o ServedSamples(path, msgEvents)

\* C19: block coverage, as the code has it.  Live samples for a path are
\* skipped exactly when the Block Accumulator output has an entry for the
\* path, that is when at least one block of the current sequence has an
\* entry for it, be it empty; otherwise the path accumulates them.
C19_SkippedWhenAnyBlockEntry ==
  (lastOp = "addMessages" /\ xAxisVal = "timestamp" /\ followingView = None) =>
    \A path \in PathStrings :
      IF \E i \in 1..Len(blocks) : HasEntry(i, path)
      THEN /\ (path \in DOMAIN accumulated) = (path \in DOMAIN prevAcc)
           /\ path \in DOMAIN prevAcc => accumulated[path] = prevAcc[path]
      ELSE ServedSamples(path, msgEvents) # <<>> =>
             /\ path \in DOMAIN accumulated
             /\ accumulated[path][1] = Range0(prevAcc, path) \o ServedSamples(path, msgEvents)

\* the only loaded block holds one message of "/a", without the field y:
\* its entry for "/a.y" is empty, and a live event carrying y is skipped
\* for "/a.y", which held a live sample from before the block arrived
C19_Witness ==
  /\ lastOp = "addMessages" /\ xAxisVal = "timestamp" /\ followingView = None
  /\ blocks = <<5>>
  /\ plotDataForBlocks["/a.y"] = << <<>> >>
  /\ ServedSamples("/a.y", msgEvents) # <<>>
  /\ "/a.y" \in DOMAIN prevAcc
  /\ accumulated["/a.y"] = prevAcc["/a.y"]

\* C23: stream-view shape.  From the empty state, after any sequence of
\* restore and addMessages calls in any modes, every path present in the
\* stream view has exactly one range.
C23_OneRangePerPath ==
  \A path \in DOMAIN accumulated : Len(accumulated[path]) = 1

\* the path list was saved (a restore), the mode was edited and
\* addMessages ran twice; the latest call, in timestamp mode, appends to
\* the one range of a path
C23_Witness ==
  /\ calls = MaxModeCalls
  /\ blockSteps > MaxModeEdits
  /\ yAxisPaths # <<"/a.x", "/a.y">>
  /\ lastOp = "addMessages"
  /\ xAxisVal = "timestamp"
  /\ \E path \in DOMAIN accumulated \cap DOMAIN prevAcc :
       /\ Len(accumulated[path]) = 1
       /\ Len(prevAcc[path][1]) = 1
       /\ Len(accumulated[path][1]) = 2

\* the receive-times of a sequence of samples or events never decrease
NonDecreasing(items) ==
  \A i \in 1..(Len(items) - 1) :
    toSec(items[i].receiveTime) <= toSec(items[i + 1].receiveTime)

\* range 0 of every path of a state object is non-decreasing in receive-time
RangesInOrder(acc) == \A path \in DOMAIN acc : NonDecreasing(acc[path][1])

\* no sample of the state object was received after an event of the batch
HeldBefore(acc, events) ==
  \A path \in DOMAIN acc : \A i \in 1..Len(acc[path][1]) : \A j \in 1..Len(events) :
    toSec(acc[path][1][i].receiveTime) <= toSec(events[j].receiveTime)

RECURSIVE IsSubsequence(_, _)
\* s is t with some elements left out, the others in the order of t
IsSubsequence(s, t) ==
  IF s = <<>> THEN TRUE
  ELSE IF t = <<>> THEN FALSE
  ELSE IF Head(s) = Head(t) THEN IsSubsequence(Tail(s), Tail(t))
  ELSE IsSubsequence(s, Tail(t))

\* C24: delivery order.  After a batch, range 0 of every path holds
\* samples it held before, in the order it held them, and then samples of
\* the batch in delivery order.  Range 0 of every path stays non-decreasing
\* in receive-time over a batch whose events are non-decreasing and not
\* earlier than the samples held, with or without trimming, and over a
\* restore: so it is non-decreasing after every batch when the delivered
\* events are non-decreasing across all batches.
C24_DeliveryOrder ==
  /\ lastOp = "addMessages" =>
       \A path \in PathStrings :
         IsSubsequence(Range0(accumulated, path),
                       Range0(prevAcc, path) \o YieldedSamples(path, msgEvents))
  /\ (lastOp = "addMessages" /\ NonDecreasing(msgEvents) /\ RangesInOrder(prevAcc)
        /\ HeldBefore(prevAcc, msgEvents)) =>
       RangesInOrder(accumulated)
  /\ (lastOp = "restore" /\ RangesInOrder(prevAcc)) => RangesInOrder(accumulated)
  /\ lastOp = "init" => RangesInOrder(accumulated)

\* in following mode a path holding a sample meets a batch of two later
\* events at different times: the held sample is trimmed and the two new
\* samples are in delivery order, earlier first
C24_Witness ==
  /\ lastOp = "addMessages" /\ xAxisVal = "timestamp" /\ followingView # None
  /\ Len(msgEvents) = 2
  /\ toSec(msgEvents[1].receiveTime) < toSec(msgEvents[2].receiveTime)
  /\ RangesInOrder(prevAcc) /\ HeldBefore(prevAcc, msgEvents)
  /\ \E path \in DOMAIN prevAcc :
       /\ prevAcc[path][1] # <<>>
       /\ Yields(path, msgEvents[1]) /\ Yields(path, msgEvents[2])
       /\ accumulated[path][1] = <<SampleOf(path, msgEvents[1]), SampleOf(path, msgEvents[2])>>

\* C27: append-only growth outside following mode.  In timestamp mode with
\* no positive following width addMessages removes no sample: for every
\* path, range 0 before the batch is a prefix of range 0 after it, and the
\* rest is the samples extracted from the events of the batch for the
\* path, in delivery order.
C27_AppendOnly ==
  (lastOp = "addMessages" /\ xAxisVal = "timestamp" /\ ~PositiveWidth) =>
    \A path \in PathStrings :
      /\ path \in DOMAIN prevAcc => path \in DOMAIN accumulated
      /\ IsPrefix(Range0(prevAcc, path), Range0(accumulated, path))
      /\ SubSeq(Range0(accumulated, path), Len(Range0(prevAcc, path)) + 1,
                Len(Range0(accumulated, path))) = YieldedSamples(path, msgEvents)

\* with the width "0", a path holding a sample of 2 s gets the samples of
\* a batch of two events of 0 s and 1 s after it, and keeps all three
C27_Witness ==
  /\ lastOp = "addMessages" /\ xAxisVal = "timestamp"
  /\ followingViewWidth = Some(<<"0">>)
  /\ Len(msgEvents) = 2
  /\ toSec(msgEvents[1].receiveTime) < toSec(msgEvents[2].receiveTime)
  /\ \E path \in DOMAIN prevAcc :
       /\ Len(prevAcc[path][1]) = 1
       /\ toSec(prevAcc[path][1][1].receiveTime) > toSec(msgEvents[2].receiveTime)
       /\ Yields(path, msgEvents[1]) /\ Yields(path, msgEvents[2])
       /\ accumulated[path][1] =
            prevAcc[path][1] \o <<SampleOf(path, msgEvents[1]), SampleOf(path, msgEvents[2])>>

\* C29: frame of the reducer.  In every mode addMessages leaves the ranges
\* of a path for which no event of the batch yielded a sample as they
\* were, same samples in the same order, and gives a path without an entry
\* none; in following mode such a path is not trimmed by the batch.
C29_ReducerFrame ==
  lastOp = "addMessages" =>
    \A path \in PathStrings :
      YieldedSamples(path, msgEvents) = <<>> =>
        IF path \in DOMAIN prevAcc
        THEN path \in DOMAIN accumulated /\ accumulated[path] = prevAcc[path]
        ELSE path \notin DOMAIN accumulated

\* in following mode a batch yields a sample for "/a.x" and none for
\* "/a.y", which keeps its sample although it is older than the window
C29_Witness ==
  /\ lastOp = "addMessages" /\ xAxisVal = "timestamp" /\ followingView # None
  /\ msgEvents # <<>>
  /\ {"/a.x", "/a.y"} \subseteq DOMAIN prevAcc
  /\ YieldedSamples("/a.x", msgEvents) # <<>>
  /\ accumulated["/a.x"] # prevAcc["/a.x"]
  /\ YieldedSamples("/a.y", msgEvents) = <<>>
  /\ Len(prevAcc["/a.y"][1]) = 1
  /\ toSec(prevAcc["/a.y"][1][1].receiveTime) < MinStamp
  /\ accumulated["/a.y"] = prevAcc["/a.y"]

----------------------------------------------------------------------------
(* PlayerProblemManager.                                                   *)

\* C13: problems() returns the array object of the call before it when no
\* addProblem, successful removeProblem or removeProblems, or clear came
\* in between, and a different array object when an addProblem or a
\* successful removal came in between.
C13_ProblemsArrayIdentity ==
  \A k \in 2..Len(returns) :
    /\ returns[k].since \cap {"added", "removed", "cleared"} = {} =>
         returns[k].ref = returns[k - 1].ref
    /\ returns[k].since \cap {"added", "removed"} # {} =>
         returns[k].ref # returns[k - 1].ref

\* problems() is called three times: with only a hasProblem or a failed
\* removal before the second call, which returns the same array, and an
\* addProblem before the third, which does not
C13_Witness ==
  /\ Len(returns) = 3
  /\ returns[2].since # {} /\ returns[2].since \subseteq {"asked", "notRemoved"}
  /\ returns[2].ref = returns[1].ref
  /\ returns[3].since = {"added"}
  /\ returns[3].ref # returns[2].ref

\* the ids of the id-to-problem map, and the problem stored for an id
StoredIds == {problemsById[i].id : i \in 1..Len(problemsById)}
StoredProblem(id) ==
  problemsById[CHOOSE i \in 1..Len(problemsById) : problemsById[i].id = id].problem

\* C26: cache coherence.  After any sequence of calls, what problems()
\* returns is exactly the current values of the id-to-problem map: one
\* entry per id, with the latest problem of an id added more than once.
\* hasProblem(id) is true exactly for the ids of the map, and an array
\* problems() has just returned holds the values of the map.
C26_CacheCoherence ==
  /\ problems(Manager).ret.items = MapValues(problemsById)
  /\ Len(problemsById) = Cardinality(StoredIds)
  /\ \A id \in ProblemIds : hasProblem(Manager, id) = (id \in StoredIds)
  /\ problemOp.name = "problems" => returns[Len(returns)].items = MapValues(problemsById)
  /\ problemOp.name = "hasProblem" => problemOp.result = (problemOp.args[1] \in StoredIds)
  /\ problemOp.name = "addProblem" =>
       /\ problemOp.args[1] \in StoredIds
       /\ StoredProblem(problemOp.args[1]) = problemOp.args[2]
       /\ \A id \in StoredIds \ {problemOp.args[1]} :
            \E i \in 1..Len(problemOp.before) :
              problemOp.before[i] = [id |-> id, problem |-> StoredProblem(id)]

\* an id is added, problems() is called, the id is added again with
\* another problem, and problems() returns the one latest problem
C26_Witness ==
  /\ problemOp.name = "problems"
  /\ Len(returns) = 2
  /\ Len(returns[1].items) = 1
  /\ Len(returns[2].items) = 1
  /\ returns[2].items # returns[1].items
  /\ returns[2].since = {"added"}
  /\ Len(problemsById) = 1
  /\ returns[2].items = <<StoredProblem(problemsById[1].id)>>

\* the entries of a map that a removal for the call's arguments takes away
Removed(map, op) ==
  {i \in 1..Len(map) :
     IF op.name = "removeProblem" THEN map[i].id = op.args[1]
     ELSE Satisfies(op.args[1], map[i].id, map[i].problem)}

\* the map without the entries at the indices of gone, the others in order
Without(map, gone) ==
  LET F[i \in 0..Len(map)] ==
        IF i = 0 THEN <<>>
        ELSE IF i \in gone THEN F[i - 1] ELSE Append(F[i - 1], map[i])
  IN  F[Len(map)]

\* C31: removal results.  A removeProblem(id) or removeProblems(predicate)
\* call takes away exactly the entry of the id, or the entries satisfying
\* the predicate, and leaves the others in place; it returns true exactly
\* when it took an entry away; when it returns false the map is as before
\* and problems() returns the array object it returned before the call.
C31_RemovalResults ==
  [][(problemSteps' # problemSteps /\ problemOp'.name \in {"removeProblem", "removeProblems"}) =>
       /\ problemsById' = Without(problemsById, Removed(problemsById, problemOp'))
       /\ problemOp'.result = (Removed(problemsById, problemOp') # {})
       /\ ~problemOp'.result =>
            /\ problemsById' = problemsById
            /\ problemsCache' = problemsCache
            /\ problemsCache # None => problems(Manager)'.ret.ref = The(problemsCache).ref]_vars

\* with two problems stored and problems() called, a removeProblems that
\* matches nothing returns false and one that matches one entry returns
\* true and leaves the other
C31_Witness ==
  /\ problemOp.name = "removeProblems"
  /\ problemOp.result
  /\ Len(problemOp.before) = 2
  /\ Len(problemsById) = 1
  /\ Len(returns) = 1
  /\ sinceReturned = {"notRemoved", "removed"}

----------------------------------------------------------------------------
(* NamespacedLayoutStorage.                                                *)

\* the invocations, by index, of a method of the wrapped storage
InvocationsOf(method) == {i \in 1..Len(storageCalls) : storageCalls[i].method = method}

\* the constructor was to invoke the method
MigrateConfigured ==
  layoutOptions.migrateUnnamespacedLayouts /\ layoutOptions.storageMigrates
ImportConfigured == layoutOptions.importFromNamespace # None

\* C25: migration gate.  Every invocation of list, get, put or delete of
\* the wrapped storage is made when the migration promise has settled,
\* after the promises of the configured migrateUnnamespacedLayouts and
\* importLayouts invocations have settled, with the wrapper's namespace as
\* first argument, and for a call of the same method of the wrapper, with
\* that call's arguments.
C25_MigrationGate ==
  /\ \A i \in 1..Len(storageCalls) :
       storageCalls[i].method \in LayoutMethods =>
         /\ storageCalls[i].migration # "pending"
         /\ storageCalls[i].args[1] = namespace
         /\ MigrateConfigured =>
              \E j \in 1..(i - 1) : /\ storageCalls[j].method = "migrateUnnamespacedLayouts"
                                    /\ storageCalls[j].outcome # Pending
         /\ ImportConfigured =>
              \E j \in 1..(i - 1) : /\ storageCalls[j].method = "importLayouts"
                                    /\ storageCalls[j].outcome # Pending
         /\ \E c \in 1..Len(layoutCalls) : layoutCalls[c].storageCall = i
  /\ \A c \in 1..Len(layoutCalls) :
       layoutCalls[c].storageCall # 0 =>
         /\ storageCalls[layoutCalls[c].storageCall].method = layoutCalls[c].method
         /\ storageCalls[layoutCalls[c].storageCall].args = <<namespace>> \o layoutCalls[c].args

\* two methods are called while the promise of migrateUnnamespacedLayouts
\* is pending, with an import configured; both reach the storage after the
\* migration and the import
C25_Witness ==
  /\ MigrateConfigured /\ ImportConfigured
  /\ Len(layoutCalls) = 2
  /\ layoutCalls[1].method # layoutCalls[2].method
  /\ \A c \in 1..2 : layoutCalls[c].issued = "awaitMigrate" /\ layoutCalls[c].storageCall > 2
  /\ Len(storageCalls) = 4

\* C30: a failed migration is not fatal.  A rejection of
\* migrateUnnamespacedLayouts is logged, and importLayouts, when
\* configured, is invoked once the constructor's function has gone on; a
\* rejection of importLayouts is logged; the migration promise is never
\* rejected.  Every ended call of list, get, put or delete has reached the
\* wrapped storage and has the outcome of its own storage invocation,
\* never the migration or import error.
C30_MigrationFailureNotFatal ==
  /\ \A i \in InvocationsOf("migrateUnnamespacedLayouts") :
       storageCalls[i].outcome.state = "rejected" =>
         /\ \E k \in 1..Len(logged) :
              logged[k] = [message |-> "Migration failed:", error |-> storageCalls[i].outcome.value]
         /\ (ImportConfigured /\ migrationPc # "afterMigrate") =>
              \E j \in InvocationsOf("importLayouts") : j > i
  /\ \A i \in InvocationsOf("importLayouts") :
       storageCalls[i].outcome.state = "rejected" =>
         \E k \in 1..Len(logged) :
           logged[k] = [message |-> "Import failed:", error |-> storageCalls[i].outcome.value]
  /\ migration.state # "rejected"
  /\ migrationPc = "done" => migration.state = "fulfilled"
  /\ \A c \in 1..Len(layoutCalls) :
       layoutCalls[c].pc = "done" =>
         /\ layoutCalls[c].storageCall \in InvocationsOf(layoutCalls[c].method)
         /\ LET own == storageCalls[layoutCalls[c].storageCall].outcome
            IN  /\ own # Pending
                /\ layoutCalls[c].outcome.state = own.state
                /\ own.state = "rejected" => layoutCalls[c].outcome.value = own.value
                /\ (own.state = "fulfilled" /\ layoutCalls[c].method # "delete") =>
                     layoutCalls[c].outcome.value = own.value
         /\ layoutCalls[c].outcome.value \notin {"migrateError", "importError"}

\* the migration and the import have both been rejected and logged; of two
\* methods called afterwards, one returns what the storage returned and
\* the other rejects with the storage's error
C30_Witness ==
  /\ \E i \in InvocationsOf("migrateUnnamespacedLayouts") :
       storageCalls[i].outcome = Rejected("migrateError")
  /\ \E i \in InvocationsOf("importLayouts") :
       storageCalls[i].outcome = Rejected("importError")
  /\ Len(logged) = 2
  /\ Len(layoutCalls) = 2
  /\ \A c \in 1..2 : layoutCalls[c].issued = "done" /\ layoutCalls[c].pc = "done"
  /\ layoutCalls[1].outcome = Rejected("storageError")
  /\ layoutCalls[2].outcome.state = "fulfilled"
  /\ layoutCalls[2].outcome = storageCalls[layoutCalls[2].storageCall].outcome

\* C32: the migration runs once and in order.  migrateUnnamespacedLayouts
\* is invoked at most once and only when the option is true, importLayouts
\* at most once and only when importFromNamespace is defined, and only
\* after the promise of the migrateUnnamespacedLayouts invocation, when
\* there is one, has settled; calls of list, get, put and delete add no
\* invocation of either, and once the constructor's function has ended
\* each was invoked exactly when configured.
C32_MigrationOnceInOrder ==
  /\ Cardinality(InvocationsOf("migrateUnnamespacedLayouts")) <= 1
  /\ InvocationsOf("migrateUnnamespacedLayouts") # {} =>
       layoutOptions.migrateUnnamespacedLayouts
  /\ Cardinality(InvocationsOf("importLayouts")) <= 1
  /\ InvocationsOf("importLayouts") # {} => layoutOptions.importFromNamespace # None
  /\ \A j \in InvocationsOf("importLayouts") :
       /\ storageCalls[j].args =
            <<[fromNamespace |-> The(layoutOptions.importFromNamespace),
               toNamespace |-> namespace]>>
       /\ MigrateConfigured => InvocationsOf("migrateUnnamespacedLayouts") # {}
       /\ \A i \in InvocationsOf("migrateUnnamespacedLayouts") :
            i < j /\ storageCalls[i].outcome # Pending
  /\ \A i \in InvocationsOf("migrateUnnamespacedLayouts") : storageCalls[i].args = <<namespace>>
  /\ migrationPc = "done" =>
       /\ (InvocationsOf("migrateUnnamespacedLayouts") # {}) = MigrateConfigured
       /\ (InvocationsOf("importLayouts") # {}) = ImportConfigured

\* the migration and the import were configured and have run, and two
\* calls of the wrapper's methods have ended: the storage log holds one
\* migration, one import and the two method invocations
C32_Witness ==
  /\ MigrateConfigured /\ ImportConfigured
  /\ migrationPc = "done"
  /\ Len(layoutCalls) = MaxLayoutCalls
  /\ \A c \in 1..Len(layoutCalls) : layoutCalls[c].pc = "done"
  /\ Cardinality(InvocationsOf("migrateUnnamespacedLayouts")) = 1
  /\ Cardinality(InvocationsOf("importLayouts")) = 1
  /\ Len(storageCalls) = MaxLayoutCalls + 2

----------------------------------------------------------------------------
(* LayoutRow.                                                              *)

\* C33: delete confirmation.  Every onDelete call is made by the callback
\* of a dialog that the Delete menu item opened and that resolved with
\* "ok", while the row was mounted, once per dialog and with the row's
\* layout; a dialog that resolved with another response, or whose callback
\* ran after the row was unmounted, or that has not resolved, has no
\* onDelete call.
C33_DeleteConfirmation ==
  /\ \A k \in 1..Len(deleted) :
       /\ deleted[k].dialog \in 1..Len(dialogs)
       /\ dialogs[deleted[k].dialog].response = "ok"
       /\ dialogs[deleted[k].dialog].handled
       /\ dialogs[deleted[k].dialog].mounted
       /\ deleted[k].layout = dialogs[deleted[k].dialog].layout
       /\ \A j \in 1..Len(deleted) : deleted[j].dialog = deleted[k].dialog => j = k
  /\ \A d \in 1..Len(dialogs) :
       (dialogs[d].response # "ok" \/ ~dialogs[d].handled \/ ~dialogs[d].mounted) =>
         \A k \in 1..Len(deleted) : deleted[k].dialog # d
  /\ \A d \in 1..Len(dialogs) :
       (dialogs[d].response = "ok" /\ dialogs[d].handled /\ dialogs[d].mounted) =>
         \E k \in 1..Len(deleted) : deleted[k].dialog = d

\* three dialogs: one answered "ok" while the row is mounted, which calls
\* onDelete; one answered "cancel"; one answered "ok" whose callback runs
\* after the row was unmounted; one onDelete call in all
C33_Witness ==
  /\ Len(dialogs) = 3
  /\ \A d \in 1..3 : dialogs[d].handled
  /\ \E d \in 1..3 : dialogs[d].response = "ok" /\ dialogs[d].mounted
  /\ \E d \in 1..3 : dialogs[d].response = "cancel"
  /\ \E d \in 1..3 : dialogs[d].response = "ok" /\ ~dialogs[d].mounted
  /\ Len(deleted) = 1
  /\ ~rowMounted

(* ExtensionDetails. *)

\* the registry invocation i of a call was made and its promise fulfilled
RegistryFulfilled(i) == i # 0 /\ registryCalls[i].outcome.state = "fulfilled"

\* the registry invocation i of a call was made and its promise rejected
RegistryRejected(i) == i # 0 /\ registryCalls[i].outcome.state = "rejected"

\* the call raised an error toast
RaisedErrorToast(run) == run.toast # 0 /\ toasts[run.toast].appearance = "error"

\* the calls of install
InstallRuns(all) == {r \in 1..Len(all) : all[r].kind = "install"}

\* the calls that end in this step with one of the given ends
EndingAs(ends) ==
  {r \in 1..Len(runs') : /\ runs'[r].end \in ends
                         /\ r <= Len(runs) => runs[r].end = "running"}

\* C34: the installed flag becomes true only in the step of an install call
\* that goes on after installExtension, downloadExtension and then
\* installExtension having both been fulfilled, with the component mounted;
\* a call of install with the foxe URL missing or a rejected step ends with
\* an error toast and leaves the flag as it was; outside the desktop app
\* the call ends with an error toast and the registry is never invoked.
C34_InstallOutcome ==
  /\ [](\A r \in InstallRuns(runs) :
          LET run == runs[r]
          IN  /\ run.end = "installed" =>
                   /\ RegistryFulfilled(run.download)
                   /\ RegistryFulfilled(run.installation)
                   /\ run.download < run.installation
                   /\ registryCalls[run.download].method = "downloadExtension"
                   /\ registryCalls[run.installation].method = "installExtension"
                   /\ registryCalls[run.installation].args =
                        <<"local", registryCalls[run.download].outcome.value>>
                   /\ run.mounted
                   /\ extensionProps.desktop
              /\ (/\ extensionProps.desktop
                  /\ run.pc = "done"
                  /\ \/ extensionProps.foxe = None
                     \/ RegistryRejected(run.download)
                     \/ RegistryRejected(run.installation)) =>
                   /\ run.end = "failed"
                   /\ RaisedErrorToast(run)
              /\ extensionProps.desktop /\ extensionProps.foxe = None =>
                   run.pc = "done" /\ run.download = 0
              /\ ~extensionProps.desktop =>
                   /\ run.end = "notDesktop"
                   /\ RaisedErrorToast(run)
                   /\ \A i \in 1..Len(registryCalls) :
                        registryCalls[i].method
                          \notin {"downloadExtension", "installExtension"})
  /\ [][/\ (~isInstalled /\ isInstalled') =>
             \E r \in EndingAs({"installed"}) :
               /\ runs[r].kind = "install"
               /\ runs[r].pc = "awaitInstall"
               /\ RegistryFulfilled(runs[r].download)
               /\ RegistryFulfilled(runs[r].installation)
               /\ extensionMounted
        /\ EndingAs({"failed", "notDesktop"}) # {} =>
             /\ isInstalled' = isInstalled
             /\ Len(toasts') = Len(toasts) + 1
             /\ toasts'[Len(toasts')].appearance = "error"
             /\ registryCalls' = registryCalls]_vars

\* one install failed at installExtension and raised its toast, the flag
\* being false, and a second one then completed both steps and set the flag
C34_Witness ==
  /\ Len(runs) = 2
  /\ runs[1].kind = "install" /\ runs[1].end = "failed"
  /\ RegistryRejected(runs[1].installation)
  /\ runs[2].kind = "install" /\ runs[2].end = "installed"
  /\ ~extensionProps.installed
  /\ isInstalled
  /\ Len(toasts) = 1
  /\ Len(registryCalls) = 4

\* with the foxe URL missing the call of install fails at once
C34_FoxeMissing ==
  /\ runs # <<>> /\ extensionProps.foxe = None /\ extensionProps.desktop
  /\ runs[1].end = "failed" /\ ~isInstalled

\* outside the desktop app the call of install ends at once
C34_NotDesktop ==
  /\ runs # <<>> /\ ~extensionProps.desktop /\ runs[1].end = "notDesktop"

\* both steps completed after the component was unmounted: the flag stays
C34_Unmounted ==
  \E r \in InstallRuns(runs) : runs[r].end = "unmounted" /\ ~isInstalled

====
